---------------------------- MODULE Spec2Model ----------------------------
(***************************************************************************)
(* JsonSuperSet (JSS): the plugin registry (utils/plugins.js), the         *)
(* built-in plugin table (utils/defaults/index.js), the encoder            *)
(* (utils/encode.js) and the decoder (utils/decode.js).                    *)
(*                                                                         *)
(* JavaScript values are records [k |-> kind, v |-> payload]; objects live *)
(* in a heap (a sequence, the index is the object's identity) and are      *)
(* referred to by [k |-> "ref", v |-> index].  Strings are sequences of    *)
(* one-character strings so that the tag grammar can be parsed.            *)
(***************************************************************************)
EXTENDS Integers, Sequences, FiniteSets, TLC

VARIABLES
  builtInPlugins,  \* defaults/index.js: the built-in table, tags in insertion order
  plugins,         \* plugins.js: the custom registry, a Map in insertion order
  lastCall,        \* the last registry call and whether it threw
  heap,            \* every object alive, by identity
  input,           \* the value handed to encode / stringify
  pc,              \* where the caller's pipeline stands
  visitedEncode,   \* encode.js: the WeakMap of one encode call, as a set of <<id, path>>
  stack,           \* encode.js: the activation records of encodeValueWithVisited
  encoded,         \* what encode returned
  text,            \* what stringify returned (the JSON text, as a tree)
  pointers2Res,    \* decode.js: the module-level pointer backlog
  data,            \* the value handed to decode
  todo,            \* decode.js: the backlog entries forEach has still to visit
  decoded,         \* what decode returned
  threw            \* the exception the pipeline ended with, or "none"

vars == <<builtInPlugins, plugins, lastCall, heap, input, pc, visitedEncode,
          stack, encoded, text, pointers2Res, data, todo, decoded, threw>>

regVars == <<builtInPlugins, plugins, lastCall>>
runVars == <<heap, input, pc, visitedEncode, stack, encoded, text,
             pointers2Res, data, todo, decoded, threw>>

----------------------------------------------------------------------------
(* Bounds of the inputs *)

MaxObjs == 2     \* objects in an input graph
MaxFields == 2   \* properties, elements or entries of the first object
MaxInner == 1    \* properties or entries of every other object
MaxElems == 2    \* elements of every other array
MaxDepth == 4    \* nested calls of encodeValueWithVisited the stack has room for
MaxNesting == 6  \* nested calls of decodeValue the stack has room for
PathLen == 3     \* keys in a path the claims follow into a graph

----------------------------------------------------------------------------
(* JavaScript values *)

Undefined == [k |-> "undef"]
Null == [k |-> "null"]
Num(n) == [k |-> "num", v |-> n]
Str(s) == [k |-> "str", v |-> s]
Bool(b) == [k |-> "bool", v |-> b]
Ref(i) == [k |-> "ref", v |-> i]

IsRef(x) == x.k = "ref"

\* typeof x, for the kinds of value the model holds
TypeOf(x) ==
  CASE x.k = "undef" -> "undefined"
    [] x.k = "null" -> "object"
    [] x.k = "num" -> "number"
    [] x.k = "str" -> "string"
    [] x.k = "bool" -> "boolean"
    [] x.k = "fn" -> "function"
    [] OTHER -> "object"

----------------------------------------------------------------------------
(* Strings, property keys and heap objects *)

Digits == <<"0", "1", "2", "3", "4", "5", "6", "7", "8", "9">>

IsDigit(c) == \E i \in 1..10 : Digits[i] = c
DigitVal(c) == (CHOOSE i \in 1..10 : Digits[i] = c) - 1

\* String(n) for the indices an array of the model can have
NumToStr(n) ==
  IF n < 10 THEN <<Digits[n + 1]>> ELSE <<Digits[(n \div 10) + 1], Digits[(n % 10) + 1]>>

\* The string a property key is coerced to
KeyStr(key) == IF key.k = "num" THEN NumToStr(key.v) ELSE key.v

\* A canonical array index ("0", "7", "12"; not "", "01", "a"): such keys come
\* first, in ascending order, in a plain object's own-property order.
IsIndexKey(s) ==
  /\ Len(s) >= 1
  /\ \A i \in 1..Len(s) : IsDigit(s[i])
  /\ Len(s) > 1 => s[1] # "0"

RECURSIVE IndexVal(_)
IndexVal(s) ==
  IF s = <<>> THEN 0 ELSE 10 * IndexVal(SubSeq(s, 1, Len(s) - 1)) + DigitVal(s[Len(s)])

\* An object of the heap: kind, own enumerable keys (plain objects, Map entries),
\* values (plain objects, arrays, Map and Set entries), internal data (Date time,
\* RegExp source and flags, Error name, message and stack).
Obj(kind, keys, vals, d) == [kind |-> kind, keys |-> keys, vals |-> vals, data |-> d]
PlainObject(keys, vals) == Obj("obj", keys, vals, <<>>)
Array(vals) == Obj("arr", <<>>, vals, <<>>)

IndexOfKey(keys, s) ==
  IF \E i \in 1..Len(keys) : keys[i] = s
  THEN CHOOSE i \in 1..Len(keys) : keys[i] = s
  ELSE 0

\* o[key]
GetProp(o, key) ==
  LET s == KeyStr(key) IN
  CASE o.kind = "arr" ->
         IF IsIndexKey(s) /\ IndexVal(s) < Len(o.vals) THEN o.vals[IndexVal(s) + 1] ELSE Undefined
    [] o.kind = "obj" ->
         IF IndexOfKey(o.keys, s) # 0 THEN o.vals[IndexOfKey(o.keys, s)] ELSE Undefined
    [] OTHER -> Undefined

\* Where a new own key goes in a plain object's key order
InsertPos(keys, s) ==
  IF IsIndexKey(s)
  THEN Cardinality({ i \in 1..Len(keys) : IsIndexKey(keys[i]) /\ IndexVal(keys[i]) < IndexVal(s) }) + 1
  ELSE Len(keys) + 1

InsertAt(seq, pos, x) == SubSeq(seq, 1, pos - 1) \o <<x>> \o SubSeq(seq, pos, Len(seq))

\* o[key] = val, on a plain object or an array
SetProp(o, key, val) ==
  LET s == KeyStr(key) IN
  CASE o.kind = "arr" /\ IsIndexKey(s) ->
         LET n == IndexVal(s) IN
         [o EXCEPT !.vals = [i \in 1..(IF n + 1 > Len(o.vals) THEN n + 1 ELSE Len(o.vals)) |->
                               IF i = n + 1 THEN val
                               ELSE IF i <= Len(o.vals) THEN o.vals[i] ELSE Undefined]]
    [] o.kind = "arr" /\ ~IsIndexKey(s) -> o
    [] OTHER ->
         IF IndexOfKey(o.keys, s) # 0
         THEN [o EXCEPT !.vals[IndexOfKey(o.keys, s)] = val]
         ELSE [o EXCEPT !.keys = InsertAt(o.keys, InsertPos(o.keys, s), s),
                        !.vals = InsertAt(o.vals, InsertPos(o.keys, s), val)]

\* Array.isArray(x), and the test "object" === typeof x && null !== x
IsArray(h, x) == IsRef(x) /\ h[x.v].kind = "arr"
IsObject(x) == IsRef(x)

\* Object.prototype.toString.call(x), as far as the built-in table tells kinds apart
ToStringType(h, x) ==
  CASE x.k = "undef" -> "[object Undefined]"
    [] x.k = "null" -> "[object Null]"
    [] x.k = "num" -> "[object Number]"
    [] x.k = "str" -> "[object String]"
    [] x.k = "bool" -> "[object Boolean]"
    [] x.k = "ref" ->
         CASE h[x.v].kind = "date" -> "[object Date]"
           [] h[x.v].kind = "regexp" -> "[object RegExp]"
           [] h[x.v].kind = "error" -> "[object Error]"
           [] h[x.v].kind = "map" -> "[object Map]"
           [] h[x.v].kind = "set" -> "[object Set]"
           [] h[x.v].kind = "arr" -> "[object Array]"
           [] OTHER -> "[object Object]"

\* Array.from(Array(n).keys()) and Object.keys(x): the keys encode iterates over
IndexKeys(n) == [i \in 1..n |-> Num(i - 1)]
ObjectKeys(o) == IF o.kind = "obj" THEN [i \in 1..Len(o.keys) |-> Str(o.keys[i])] ELSE <<>>

----------------------------------------------------------------------------
(* utils/defaults/index.js and utils/plugins.js: the registries *)

\* defaults/index.js: new Map([["D", date], ["R", regexp], ...]) and its keys
BuiltInTable == << <<"D">>, <<"R">>, <<"E">>, <<"U">>, <<"M">>, <<"S">>, <<"P">>, <<"I">> >>

builtInTags == { builtInPlugins[i] : i \in 1..Len(builtInPlugins) }

PluginTags(reg) == { reg[i].tag : i \in 1..Len(reg) }

\* plugins.has(tag)
hasPlugin(tag) == tag \in PluginTags(plugins)

\* A member of a config object: undefined (absent), a function, or something else.
Fn(f) == [k |-> "fn", v |-> f]
NotCallable == Null

\* register(tag, config) throws: the message, or "none".  A config that is not
\* an object makes config.check itself throw a TypeError.
RegisterNoDuplicateCheck(tag, config) ==
  IF "string" # TypeOf(tag) \/ 1 # Len(tag.v) THEN "single character"
  ELSE IF tag.v \in builtInTags THEN "conflicts with built-in"
  ELSE IF config.k \in {"undef", "null"} THEN "TypeError"
  ELSE IF "function" # TypeOf(config.check) THEN "check"
  ELSE IF "function" # TypeOf(config.encode) THEN "encode"
  ELSE IF "function" # TypeOf(config.decode) THEN "decode"
  ELSE IF Undefined # config.onSend /\ "function" # TypeOf(config.onSend) THEN "onSend"
  ELSE IF Undefined # config.onReceive /\ "function" # TypeOf(config.onReceive) THEN "onReceive"
  ELSE "none"

RegisterError(tag, config) ==
  IF "string" # TypeOf(tag) \/ 1 # Len(tag.v) THEN "single character"
  ELSE IF tag.v \in builtInTags THEN "conflicts with built-in"
  ELSE IF hasPlugin(tag.v) THEN "already registered"
  ELSE IF config.k \in {"undef", "null"} THEN "TypeError"
  ELSE IF "function" # TypeOf(config.check) THEN "check"
  ELSE IF "function" # TypeOf(config.encode) THEN "encode"
  ELSE IF "function" # TypeOf(config.decode) THEN "decode"
  ELSE IF Undefined # config.onSend /\ "function" # TypeOf(config.onSend) THEN "onSend"
  ELSE IF Undefined # config.onReceive /\ "function" # TypeOf(config.onReceive) THEN "onReceive"
  ELSE "none"

\* plugins.set(tag, config): a Map keeps a key's first position and appends a new key
MapSetFront(reg, tag, config) == <<[tag |-> tag, cfg |-> config]>> \o reg

MapSet(reg, tag, config) ==
  IF tag \in PluginTags(reg)
  THEN [i \in 1..Len(reg) |-> IF reg[i].tag = tag THEN [tag |-> tag, cfg |-> config] ELSE reg[i]]
  ELSE Append(reg, [tag |-> tag, cfg |-> config])

\* plugins.clear()
MapClearKeepsOldest(reg) == IF reg = <<>> THEN reg ELSE <<reg[1]>>

MapClear(reg) == <<>>

\* The tags and configs the registry calls are tried with.
TagInputs ==
  { Str(<<>>), Str(<<"X">>), Str(<<",">>), Str(<<"D">>), Str(<<"P">>),
    Str(<<"X", "Y">>), Num(1), Undefined }

\* The config every field of which is acceptable, with check function f.
ValidConfig(f) ==
  [k |-> "obj", check |-> Fn(f), encode |-> Fn("encode"), decode |-> Fn("decode"),
   onSend |-> Undefined, onReceive |-> Undefined]

RequiredMembers == {"check", "encode", "decode"}
OptionalMembers == {"onSend", "onReceive"}

\* The valid configs; each required member in turn absent or not callable; each
\* optional member in turn a function or not callable; no config at all.
ConfigInputs ==
  {ValidConfig("f"), ValidConfig("g"), Undefined}
  \cup { [ValidConfig("f") EXCEPT ![m] = x] :
           m \in RequiredMembers, x \in {Undefined, NotCallable} }
  \cup { [ValidConfig("f") EXCEPT ![m] = x] :
           m \in OptionalMembers, x \in {NotCallable, Fn("hook")} }

\* register(tag, config).  lastCall keeps what the caller saw: the arguments, the
\* registry the call started from, and the exception (or "none").
Custom(tag, config) ==
  /\ pc = "registry"
  /\ LET err == RegisterError(tag, config) IN
       /\ lastCall' = [op |-> "custom", tag |-> tag, cfg |-> config,
                       before |-> plugins, threw |-> err]
       /\ plugins' = IF err = "none" THEN MapSet(plugins, tag.v, config) ELSE plugins
  /\ UNCHANGED <<builtInPlugins, runVars>>

\* clearPlugins()
ClearPlugins ==
  /\ pc = "registry"
  /\ plugins' = MapClear(plugins)
  /\ lastCall' = [op |-> "clear", tag |-> Undefined, cfg |-> Undefined,
                  before |-> plugins, threw |-> "none"]
  /\ UNCHANGED <<builtInPlugins, runVars>>

NoCall == [op |-> "none", tag |-> Undefined, cfg |-> Undefined,
           before |-> <<>>, threw |-> "none"]

InitRegistry ==
  /\ builtInPlugins = BuiltInTable
  /\ plugins = <<>>
  /\ lastCall = NoCall
  /\ heap = <<>>
  /\ input = Undefined
  /\ pc = "registry"
  /\ visitedEncode = {}
  /\ stack = <<>>
  /\ encoded = Undefined
  /\ text = Undefined
  /\ pointers2Res = <<>>
  /\ data = Undefined
  /\ todo = <<>>
  /\ decoded = Undefined
  /\ threw = "none"

NextRegistry ==
  \/ \E tag \in TagInputs, config \in ConfigInputs : Custom(tag, config)
  \/ ClearPlugins

SpecRegistry == InitRegistry /\ [][NextRegistry]_vars

----------------------------------------------------------------------------
(* utils/defaults/*.js: the built-in plugins' encode side *)

\* defaults/index.js getTagByToString: the tag of a built-in type, or <<>> (undefined)
getTagByToString(toStringType) ==
  CASE toStringType = "[object Date]" -> <<"D">>
    [] toStringType = "[object RegExp]" -> <<"R">>
    [] toStringType = "[object Error]" -> <<"E">>
    [] toStringType = "[object Undefined]" -> <<"U">>
    [] toStringType = "[object Map]" -> <<"M">>
    [] toStringType = "[object Set]" -> <<"S">>
    [] OTHER -> <<>>

\* Object.fromEntries(map): one property per entry, in entry order
RECURSIVE FromEntries(_, _, _, _)
FromEntries(keys, vals, i, o) ==
  IF i > Len(keys) THEN o
  ELSE FromEntries(keys, vals, i + 1, SetProp(o, Str(keys[i]), vals[i]))

\* plugin.encode(path, key, value, {}) of the built-in plugin with this tag: the
\* encoded value and the heap, which gains the object the plugin creates.
\* map.js and set.js copy the entries as they are: nothing inside is encoded.
MapEncode(h, o) ==
  [v |-> Ref(Len(h) + 1),
   h |-> Append(h, FromEntries(o.keys, o.vals, 1, PlainObject(<<>>, <<>>)))]

SetEncode(h, o) == [v |-> Ref(Len(h) + 1), h |-> Append(h, Array(o.vals))]

BuiltInEncode(h, tag, value) ==
  CASE tag = <<"D">> -> [v |-> h[value.v].data[1], h |-> h]
    [] tag = <<"R">> ->
         [v |-> Str(<<"/">> \o h[value.v].data[1].v \o <<"/">> \o h[value.v].data[2].v), h |-> h]
    [] tag = <<"E">> ->
         \* error.js: [value.name, value.message, value.stack]
         [v |-> Ref(Len(h) + 1), h |-> Append(h, Array(SubSeq(h[value.v].data, 1, 3)))]
    [] tag = <<"U">> -> [v |-> Null, h |-> h]
    [] tag = <<"M">> -> MapEncode(h, h[value.v])
    [] tag = <<"S">> -> SetEncode(h, h[value.v])

\* A custom plugin's functions, by name.
\*   check:  never     () => false
\*           always    () => true
\*           isNumber  (key, val) => "number" === typeof val
\*           isObject  (key, val) => val && "object" === typeof val && !Array.isArray(val)
\*   encode: identity  (path, key, val) => val
\*   decode: identity  (val) => val
\*           reenter   (val) => jss.decode(val)
PluginCheck(h, f, key, value) ==
  CASE f = "isNumber" -> value.k = "num"
    [] f = "always" -> TRUE
    [] f = "isObject" -> IsRef(value) /\ h[value.v].kind # "arr"
    [] OTHER -> FALSE

PluginEncode(h, f, path, key, value) == [v |-> value, h |-> h]

\* for (const [customTag, plugin] of getAllPlugins()) if (plugin.check(key, value)):
\* the position of the first plugin whose check accepts, or 0
LastMatch(h, reg, key, value) ==
  IF \E i \in 1..Len(reg) : PluginCheck(h, reg[i].cfg.check.v, key, value)
  THEN CHOOSE i \in 1..Len(reg) :
         /\ PluginCheck(h, reg[i].cfg.check.v, key, value)
         /\ \A j \in (i + 1)..Len(reg) : ~PluginCheck(h, reg[j].cfg.check.v, key, value)
  ELSE 0

FirstMatch(h, reg, key, value) ==
  IF \E i \in 1..Len(reg) : PluginCheck(h, reg[i].cfg.check.v, key, value)
  THEN CHOOSE i \in 1..Len(reg) :
         /\ PluginCheck(h, reg[i].cfg.check.v, key, value)
         /\ \A j \in 1..(i - 1) : ~PluginCheck(h, reg[j].cfg.check.v, key, value)
  ELSE 0

----------------------------------------------------------------------------
(* utils/encode.js: encode, one loop iteration or one return per step *)

IsVisited(id) == \E e \in visitedEncode : e[1] = id
VisitedPath(id) == (CHOOSE e \in visitedEncode : e[1] = id)[2]

\* An activation: the root loop of encode (root = TRUE) or one call of
\* encodeValueWithVisited that recursed; res is the result object being filled.
Frame(root, val, path, keys, res) ==
  [root |-> root, val |-> val, path |-> path, keys |-> keys, i |-> 1,
   res |-> res, types |-> <<>>]

Top == stack[Len(stack)]
TopKey == Top.keys[Top.i]
TopChild == GetProp(heap[Top.val], TopKey)
TopPath == Append(Top.path, TopKey)
InLoop == pc = "encoding" /\ stack # <<>> /\ Top.i <= Len(Top.keys)

\* key + (t ? `<!${t}>` : "")
TaggedKey(key, t) ==
  Str(KeyStr(key) \o (IF t # <<>> THEN <<"<", "!">> \o t \o <<">">> ELSE <<>>))

\* The loop body after the call returned [t, v]: store it in the frame's result.
\* The root loop only calls for defined values; a nested loop drops them after.
StoredAlways(h, f, key, t, v) ==
  IF ~f.root /\ h[f.val].kind = "arr" THEN [h EXCEPT ![f.res] = Array(Append(@.vals, v))]
  ELSE [h EXCEPT ![f.res] = SetProp(@, TaggedKey(key, t), v)]

Stored(h, f, key, t, v) ==
  IF f.root THEN [h EXCEPT ![f.res] = SetProp(@, TaggedKey(key, t), v)]
  ELSE IF h[f.val].kind = "arr" THEN [h EXCEPT ![f.res] = Array(Append(@.vals, v))]
  ELSE IF Undefined # GetProp(h[f.val], key)
       THEN [h EXCEPT ![f.res] = SetProp(@, TaggedKey(key, t), v)]
       ELSE h

Advanced(h, f, t) ==
  [f EXCEPT !.i = @ + 1,
            !.types = IF ~f.root /\ h[f.val].kind = "arr" THEN Append(@, t) ELSE @]

\* What encodeValueWithVisited does with a value
ClassifyRevisits(value) ==
  IF getTagByToString(ToStringType(heap, value)) # <<>> THEN "builtin"
  ELSE IF FirstMatch(heap, plugins, TopKey, value) # 0 THEN "custom"
  ELSE IF IsObject(value) THEN "recurse"
  ELSE "primitive"

Classify(value) ==
  IF getTagByToString(ToStringType(heap, value)) # <<>> THEN "builtin"
  ELSE IF FirstMatch(heap, plugins, TopKey, value) # 0 THEN "custom"
  ELSE IF IsObject(value) THEN (IF IsVisited(value.v) THEN "pointer" ELSE "recurse")
  ELSE "primitive"

\* encode(obj): the WeakMap, and the root loop's keys and result.  A WeakMap key
\* must be an object: visitedEncode.set(obj, []) throws for anything else.
EncodeCall ==
  /\ pc = "ready"
  /\ IF IsObject(input)
     THEN /\ visitedEncode' = {<<input.v, <<>>>>}
          /\ heap' = Append(heap, PlainObject(<<>>, <<>>))
          /\ stack' = <<Frame(TRUE, input.v, <<>>,
                              IF IsArray(heap, input) THEN IndexKeys(Len(heap[input.v].vals))
                              ELSE ObjectKeys(heap[input.v]),
                              Len(heap) + 1)>>
          /\ pc' = "encoding"
          /\ UNCHANGED threw
     ELSE /\ threw' = "TypeError"
          /\ pc' = "threw"
          /\ UNCHANGED <<visitedEncode, heap, stack>>
  /\ UNCHANGED <<regVars, input, encoded, text, pointers2Res, data, todo, decoded>>

encFrame == <<regVars, input, encoded, text, pointers2Res, data, todo, decoded, threw, pc>>

\* root loop: if (undefined !== obj[key]) guards the whole body
EncodeSkipUndefined ==
  /\ InLoop /\ Top.root /\ TopChild = Undefined
  /\ stack' = [stack EXCEPT ![Len(stack)].i = @ + 1]
  /\ UNCHANGED <<encFrame, heap, visitedEncode>>

Callable == InLoop /\ ~(Top.root /\ TopChild = Undefined)

\* a built-in type: return [tag, plugin.encode(path, key, value, {})]
EncodeBuiltIn ==
  /\ Callable /\ Classify(TopChild) = "builtin"
  /\ LET t == getTagByToString(ToStringType(heap, TopChild))
         r == BuiltInEncode(heap, t, TopChild)
     IN /\ heap' = Stored(r.h, Top, TopKey, t, r.v)
        /\ stack' = [stack EXCEPT ![Len(stack)] = Advanced(heap, Top, t)]
  /\ UNCHANGED <<encFrame, visitedEncode>>

\* the first custom plugin whose check accepts: return [customTag, plugin.encode(...)]
EncodeCustom ==
  /\ Callable /\ Classify(TopChild) = "custom"
  /\ LET p == plugins[FirstMatch(heap, plugins, TopKey, TopChild)]
         r == PluginEncode(heap, p.cfg.encode.v, TopPath, TopKey, TopChild)
     IN /\ heap' = Stored(r.h, Top, TopKey, p.tag, r.v)
        /\ stack' = [stack EXCEPT ![Len(stack)] = Advanced(heap, Top, p.tag)]
  /\ UNCHANGED <<encFrame, visitedEncode>>

\* an object seen before: return ["P", visitedEncode.get(value)].  The source
\* hands out the path array kept in the WeakMap; decode only iterates it, so the
\* model gives every pointer an array of its own with the same keys.
PointerEncodeRoot(h, path) == [v |-> Ref(Len(h) + 1), h |-> Append(h, Array(<<>>))]

PointerEncode(h, path) == [v |-> Ref(Len(h) + 1), h |-> Append(h, Array(path))]

EncodePointer ==
  /\ Callable /\ Classify(TopChild) = "pointer"
  /\ LET r == PointerEncode(heap, VisitedPath(TopChild.v))
     IN /\ heap' = Stored(r.h, Top, TopKey, <<"P">>, r.v)
        /\ stack' = [stack EXCEPT ![Len(stack)] = Advanced(heap, Top, <<"P">>)]
  /\ UNCHANGED <<encFrame, visitedEncode>>

\* an object not seen before: mark it visited at this path and loop over its keys
MarkedNever(visited, id, path) == visited

Marked(visited, id, path) == visited \cup {<<id, path>>}

EncodeRecurse ==
  /\ Callable /\ Classify(TopChild) = "recurse"
  /\ Len(stack) < MaxDepth
  /\ visitedEncode' = Marked(visitedEncode, TopChild.v, TopPath)
  /\ heap' = Append(heap, IF IsArray(heap, TopChild) THEN Array(<<>>)
                          ELSE PlainObject(<<>>, <<>>))
  /\ stack' = Append(stack,
                     Frame(FALSE, TopChild.v, TopPath,
                           IF IsArray(heap, TopChild)
                           THEN IndexKeys(Len(heap[TopChild.v].vals))
                           ELSE ObjectKeys(heap[TopChild.v]),
                           Len(heap) + 1))
  /\ UNCHANGED encFrame

\* a primitive: return ["", value]
EncodePrimitive ==
  /\ Callable /\ Classify(TopChild) = "primitive"
  /\ heap' = Stored(heap, Top, TopKey, <<>>, TopChild)
  /\ stack' = [stack EXCEPT ![Len(stack)] = Advanced(heap, Top, <<>>)]
  /\ UNCHANGED <<encFrame, visitedEncode>>

\* typesFound.join()
RECURSIVE Join(_)
Join(types) ==
  IF types = <<>> THEN <<>>
  ELSE IF Len(types) = 1 THEN types[1]
  ELSE types[1] \o <<",">> \o Join(Tail(types))

\* The tag a finished array returns: none, [*t] or [t0,t1,...]
ArrayTagOfTagged(types) ==
  LET nonEmpty == SelectSeq(types, LAMBDA t : t # <<>>)
  IN IF nonEmpty = <<>> THEN <<>>
     ELSE IF \A i \in 1..Len(nonEmpty) : nonEmpty[i] = nonEmpty[1]
          THEN <<"[", "*">> \o nonEmpty[1] \o <<"]">>
          ELSE <<"[">> \o Join(types) \o <<"]">>

ArrayTag(types) ==
  IF \E i \in 1..Len(types) : types[i] # <<>>
  THEN IF \A i \in 1..Len(types) : types[i] # <<>> /\ types[i] = types[1]
       THEN <<"[", "*">> \o types[1] \o <<"]">>
       ELSE <<"[">> \o Join(types) \o <<"]">>
  ELSE <<>>

\* the loop of a nested call is over: return [tag, result] to the caller's loop
EncodeReturn ==
  /\ pc = "encoding" /\ Len(stack) > 1 /\ Top.i > Len(Top.keys)
  /\ LET f == Top
         caller == stack[Len(stack) - 1]
         key == caller.keys[caller.i]
         t == IF heap[f.val].kind = "arr" THEN ArrayTag(f.types) ELSE <<>>
     IN /\ heap' = Stored(heap, caller, key, t, Ref(f.res))
        /\ stack' = [SubSeq(stack, 1, Len(stack) - 1) EXCEPT
                       ![Len(stack) - 1] = Advanced(heap, caller, t)]
  /\ UNCHANGED <<encFrame, visitedEncode>>

\* the root loop is over: return result
EncodeDone ==
  /\ pc = "encoding" /\ Len(stack) = 1 /\ Top.i > Len(Top.keys)
  /\ encoded' = Ref(Top.res)
  /\ stack' = <<>>
  /\ pc' = "encoded"
  /\ UNCHANGED <<regVars, input, heap, visitedEncode, text, pointers2Res, data, todo,
                 decoded, threw>>

EncodeStep ==
  \/ EncodeSkipUndefined
  \/ EncodeBuiltIn
  \/ EncodeCustom
  \/ EncodePointer
  \/ EncodeRecurse
  \/ EncodePrimitive
  \/ EncodeReturn
  \/ EncodeDone

----------------------------------------------------------------------------
(* utils/decode.js: the tag grammar *)

StartsWith(s, prefix) == Len(s) >= Len(prefix) /\ SubSeq(s, 1, Len(prefix)) = prefix
EndsWith(s, c) == Len(s) >= 1 /\ s[Len(s)] = c

\* Where /(.+)<!(.*)>/ matches: "<!" after at least one character, ">" after it.
\* Both groups are greedy: the last such "<!" and the last ">".
TagOpenings(key) ==
  { i \in 2..Len(key) :
      /\ i + 2 <= Len(key)
      /\ key[i] = "<" /\ key[i + 1] = "!"
      /\ \E j \in (i + 2)..Len(key) : key[j] = ">" }

Max(S) == CHOOSE x \in S : \A y \in S : y <= x

\* parseKeyWithTags(key): [name, tag]; tagged = FALSE stands for [key, undefined]
parseKeyWithTags(key) ==
  IF TagOpenings(key) = {} THEN [name |-> key, tag |-> <<>>, tagged |-> FALSE]
  ELSE LET i == Max(TagOpenings(key))
           j == Max({ n \in (i + 2)..Len(key) : key[n] = ">" })
           tag == SubSeq(key, i + 2, j - 1)
       IN [name |-> SubSeq(key, 1, i - 1),
           tag |-> IF StartsWith(tag, <<"[">>) /\ ~EndsWith(tag, "]")
                   THEN Append(tag, "]") ELSE tag,
           tagged |-> TRUE]

\* splitArrayTag(tag): tag.slice(1, -1) split at the commas outside brackets
RECURSIVE SplitFrom(_, _, _, _, _)
RECURSIVE SplitAtEveryComma(_, _, _, _, _)
SplitAtEveryComma(inner, i, current, depth, parts) ==
  IF i > Len(inner) THEN Append(parts, current)
  ELSE IF inner[i] = ","
       THEN SplitAtEveryComma(inner, i + 1, <<>>, depth, Append(parts, current))
       ELSE SplitAtEveryComma(inner, i + 1, Append(current, inner[i]), depth, parts)

SplitFrom(inner, i, current, depth, parts) ==
  IF i > Len(inner) THEN Append(parts, current)
  ELSE LET c == inner[i]
           d == IF c = "[" THEN depth + 1 ELSE IF c = "]" THEN depth - 1 ELSE depth
       IN IF c = "," /\ d = 0
          THEN SplitFrom(inner, i + 1, <<>>, d, Append(parts, current))
          ELSE SplitFrom(inner, i + 1, Append(current, c), d, parts)

splitArrayTag(tag) == SplitFrom(SubSeq(tag, 2, Len(tag) - 1), 1, <<>>, 0, <<>>)

----------------------------------------------------------------------------
(* utils/defaults/*.js: the built-in plugins' decode side *)

\* What a decode step hands on: the heap, the module's pointers2Res, the
\* exception in flight ("none" when there is none), and the value it returns.
Result(v, h, ptrs, err) == [v |-> v, h |-> h, ptrs |-> ptrs, threw |-> err]
Alloc(st, o, ptrs) == Result(Ref(Len(st.h) + 1), Append(st.h, o), ptrs, st.threw)

\* Array.from(new Set(value)): the first occurrence of every element
RECURSIVE Distinct(_)
Distinct(vals) ==
  IF vals = <<>> THEN <<>>
  ELSE LET front == Distinct(SubSeq(vals, 1, Len(vals) - 1))
           x == vals[Len(vals)]
       IN IF \E i \in 1..Len(front) : front[i] = x THEN front ELSE Append(front, x)

\* Object.entries(value) of an object of the heap: keys and values
EntryKeys(o) ==
  IF o.kind = "obj" THEN o.keys
  ELSE IF o.kind = "arr" THEN [i \in 1..Len(o.vals) |-> NumToStr(i - 1)]
  ELSE <<>>
EntryVals(o) == IF o.kind \in {"obj", "arr"} THEN o.vals ELSE <<>>

\* The characters of a string, as strings
Chars(s) == [i \in 1..Len(s) |-> Str(<<s[i]>>)]

\* The source of new RegExp(pattern): every "/" of the pattern is escaped
RECURSIVE EscapeSlashes(_)
EscapeSlashes(s) ==
  IF s = <<>> THEN <<>>
  ELSE (IF Head(s) = "/" THEN <<"\\", "/">> ELSE <<Head(s)>>) \o EscapeSlashes(Tail(s))

\* The last "/" of "/source/flags"
LastSlash(s) == Max({0} \cup { i \in 1..Len(s) : s[i] = "/" })
RegExpFlags == {"g", "i", "m", "s", "u", "y"}

\* The names error.js may look up in the global object, and what is there: a
\* constructor of Errors, a constructor of something else, a value that is not
\* a constructor, or nothing
ErrorName == <<"E", "r", "r", "o", "r">>
TypeErrorName == <<"T", "y", "p", "e", "E", "r", "r", "o", "r">>
CustomErrorName == <<"C", "u", "s", "t", "o", "m", "E", "r", "r", "o", "r">>
ObjectName == <<"O", "b", "j", "e", "c", "t">>
MathName == <<"M", "a", "t", "h">>

GlobalTrusted(name) ==
  IF name.k = "str" /\ name.v # MathName THEN "Error constructor" ELSE "absent"

Global(name) ==
  IF name.k # "str" THEN "absent"
  ELSE CASE name.v \in {ErrorName, TypeErrorName} -> "Error constructor"
         [] name.v = ObjectName -> "constructor"
         [] name.v = MathName -> "not a constructor"
         [] OTHER -> "absent"

\* String(x), for what a message can be
ToStr(x) ==
  CASE x.k = "str" -> x
    [] x.k = "num" -> Str(NumToStr(x.v))
    [] x.k = "null" -> Str(<<"n", "u", "l", "l">>)
    [] OTHER -> Str(<<"[", "o", "b", "j", "e", "c", "t", "]">>)

\* An Error object: its name, message and stack, and the constructor whose
\* prototype it has.  new C(message) sets no message when message is undefined:
\* the message is then the empty one of Error.prototype.
ErrorObject(class, name, message, trace) ==
  Obj("error", <<>>, <<>>,
      <<name, IF message = Undefined THEN Str(<<>>) ELSE ToStr(message), trace, Str(class)>>)

\* error.js decode with [name, message, stack] taken from the value: an instance
\* of global[name] if that constructs an Error, else (the constructor call or
\* the thrown {} is caught) a generic Error with the name assigned
ErrorDecodeNoFallback(name, message, trace) ==
  ErrorObject(IF name.k = "str" THEN name.v ELSE ErrorName, name, message, trace)

ErrorDecode(name, message, trace) ==
  IF Global(name) = "Error constructor"
  THEN ErrorObject(name.v, name, message, trace)
  ELSE ErrorObject(ErrorName, name, message, trace)

\* builtIn.decode(val, path, { pointers2Res })
BuiltInDecode(st, tag, val, path) ==
  CASE tag = <<"P">> ->
         \* pointer.js: context.pointers2Res.push([value, path]); return null
         Result(Null, st.h, Append(st.ptrs, <<val, path>>), st.threw)
    [] tag = <<"U">> -> Result(Undefined, st.h, st.ptrs, st.threw)
    [] tag = <<"D">> -> Alloc(st, Obj("date", <<>>, <<>>, <<val>>), st.ptrs)
    [] tag = <<"M">> ->
         \* new Map(Object.entries(value)): the values are kept as they are
         IF val.k \in {"undef", "null"} THEN Result(Undefined, st.h, st.ptrs, "TypeError")
         ELSE IF IsRef(val)
              THEN Alloc(st, Obj("map", EntryKeys(st.h[val.v]), EntryVals(st.h[val.v]), <<>>),
                         st.ptrs)
              ELSE IF val.k = "str"
                   THEN Alloc(st, Obj("map", [i \in 1..Len(val.v) |-> NumToStr(i - 1)],
                                      Chars(val.v), <<>>), st.ptrs)
                   ELSE Alloc(st, Obj("map", <<>>, <<>>, <<>>), st.ptrs)
    [] tag = <<"S">> ->
         \* new Set(value): value must be iterable
         IF IsRef(val) /\ st.h[val.v].kind \in {"arr", "set"}
         THEN Alloc(st, Obj("set", <<>>, Distinct(st.h[val.v].vals), <<>>), st.ptrs)
         ELSE IF val.k \in {"undef", "null"}
              THEN Alloc(st, Obj("set", <<>>, <<>>, <<>>), st.ptrs)
              ELSE IF val.k = "str"
                   THEN Alloc(st, Obj("set", <<>>, Distinct(Chars(val.v)), <<>>), st.ptrs)
                   ELSE Result(Undefined, st.h, st.ptrs, "TypeError")
    [] tag = <<"R">> ->
         \* regexp.js: /^\/(.*)\/([gimsuy]*)$/, else new RegExp(value)
         IF val.k # "str" THEN Result(Undefined, st.h, st.ptrs, "TypeError")
         ELSE LET s == val.v
                  n == LastSlash(s)
              IN IF /\ Len(s) >= 2 /\ s[1] = "/" /\ n >= 2
                    /\ \A i \in (n + 1)..Len(s) : s[i] \in RegExpFlags
                 THEN Alloc(st, Obj("regexp", <<>>, <<>>,
                                    <<Str(SubSeq(s, 2, n - 1)), Str(SubSeq(s, n + 1, Len(s)))>>),
                            st.ptrs)
                 ELSE Alloc(st, Obj("regexp", <<>>, <<>>, <<Str(EscapeSlashes(s)), Str(<<>>)>>),
                            st.ptrs)
    [] tag = <<"E">> ->
         \* error.js: const [name, message, stack] = value
         IF (IsRef(val) /\ st.h[val.v].kind \in {"arr", "set"}) \/ val.k = "str"
         THEN LET items == IF IsRef(val) THEN st.h[val.v].vals ELSE Chars(val.v)
                  item(i) == IF i <= Len(items) THEN items[i] ELSE Undefined
              IN Alloc(st, ErrorDecode(item(1), item(2), item(3)), st.ptrs)
         ELSE Result(Undefined, st.h, st.ptrs, "TypeError")
    [] tag = <<"I">> ->
         \* binary.js: Buffer.from(value, "base64")
         IF val.k = "str" THEN Alloc(st, Obj("buffer", <<>>, <<>>, <<val>>), st.ptrs)
         ELSE Result(Undefined, st.h, st.ptrs, "TypeError")

----------------------------------------------------------------------------
(* utils/decode.js: decodeValue, resolvePointers, decode *)

\* ref[key] while resolvePointers walks a path: Thrown when ref is undefined or
\* null, undefined when ref has no such property
Thrown == [k |-> "thrown"]

Step(h, ref, key) ==
  IF ref.k \in {"thrown", "undef", "null"} THEN Thrown
  ELSE IF IsRef(ref) /\ key.k \in {"str", "num"} THEN GetProp(h[ref.v], key)
  ELSE IF ref.k = "str" /\ key.k \in {"str", "num"} /\ IsIndexKey(KeyStr(key))
          /\ IndexVal(KeyStr(key)) < Len(ref.v)
       THEN Str(<<ref.v[IndexVal(KeyStr(key)) + 1]>>)
  ELSE Undefined

RECURSIVE Walk(_, _, _, _, _)
Walk(h, ref, keys, i, n) == IF i > n THEN ref ELSE Walk(h, Step(h, ref, keys[i]), keys, i + 1, n)

\* for (const key of refPath): the keys, if refPath is iterable
Iterable(h, refPath) ==
  \/ IsRef(refPath) /\ h[refPath.v].kind \in {"arr", "set"}
  \/ refPath.k = "str"

PathKeys(h, refPath) == IF IsRef(refPath) THEN h[refPath.v].vals ELSE Chars(refPath.v)

\* resolvePointers(obj, [refPath, attrPath]): the heap and the exception.  An
\* assignment to a property of a primitive is ignored; one to an object that is
\* neither plain nor an array adds a property the model does not keep.
resolvePointers(h, obj, p) ==
  LET attrPath == p[2]
  IN IF ~Iterable(h, p[1]) THEN [h |-> h, threw |-> "TypeError"]
     ELSE LET keys == PathKeys(h, p[1])
              ref == Walk(h, obj, keys, 1, Len(keys))
              attrParent == Walk(h, obj, attrPath, 1, Len(attrPath) - 1)
          IN IF ref.k = "thrown" \/ attrParent.k \in {"thrown", "undef", "null"}
             THEN [h |-> h, threw |-> "TypeError"]
             ELSE IF IsRef(attrParent) /\ h[attrParent.v].kind \in {"obj", "arr"}
                     /\ attrPath # <<>>
                  THEN [h |-> [h EXCEPT ![attrParent.v] =
                                 SetProp(@, attrPath[Len(attrPath)], ref)],
                        threw |-> "none"]
                  ELSE [h |-> h, threw |-> "none"]

\* pointers2Res.forEach((p) => resolvePointers(result, p)), from entry i on
RECURSIVE ResolveAll(_, _, _, _)
ResolveFirst(h, obj, ptrs, i) ==
  IF i > Len(ptrs) \/ i > 1 THEN [h |-> h, threw |-> "none"]
  ELSE resolvePointers(h, obj, ptrs[i])

ResolveAll(h, obj, ptrs, i) ==
  IF i > Len(ptrs) THEN [h |-> h, threw |-> "none"]
  ELSE LET r == resolvePointers(h, obj, ptrs[i])
       IN IF r.threw # "none" THEN r ELSE ResolveAll(r.h, obj, ptrs, i + 1)

\* The decode function of the custom plugin registered under a tag
PluginDecodeOf(tag) ==
  plugins[CHOOSE i \in 1..Len(plugins) : plugins[i].tag = tag].cfg.decode.v

RECURSIVE decodeValue(_, _, _, _)
RECURSIVE DecodeElements(_, _, _, _, _, _, _)
RECURSIVE DecodeProperties(_, _, _, _, _, _)
RECURSIVE DecodeNested(_, _)

\* decodeValue(val, tag, path); no tag (undefined) is the empty tag.  There is
\* no cycle detection: on a value that contains itself the recursion goes on
\* until the stack is exhausted (RangeError).
decodeValue(st, val, tag, path) ==
  IF st.threw # "none" THEN Result(Undefined, st.h, st.ptrs, st.threw)
  ELSE IF Len(path) > MaxNesting THEN Result(Undefined, st.h, st.ptrs, "RangeError")
  ELSE IF tag \in builtInTags THEN BuiltInDecode(st, tag, val, path)
  ELSE IF hasPlugin(tag) THEN
         \* plugin.decode(val, path, {})
         IF PluginDecodeOf(tag) = "reenter" THEN DecodeNested(st, val)
         ELSE Result(val, st.h, st.ptrs, st.threw)
  ELSE IF IsArray(st.h, val) THEN
         LET res == Alloc(st, Array(<<>>), st.ptrs)
             star == StartsWith(tag, <<"[", "*">>)
             typeTags == IF star THEN <<SubSeq(tag, 3, Len(tag) - 1)>>
                         ELSE IF StartsWith(tag, <<"[">>) THEN splitArrayTag(tag)
                         ELSE <<>>
         IN DecodeElements(res, val.v, res.v.v, star, typeTags, path, 1)
  ELSE IF IsObject(val) THEN
         LET res == Alloc(st, PlainObject(<<>>, <<>>), st.ptrs)
         IN DecodeProperties(res, val.v, res.v.v, ObjectKeys(st.h[val.v]), path, 1)
  ELSE Result(val, st.h, st.ptrs, st.threw)

\* for (let i = 0; i < val.length; i++) res.push(decodeValue(val[i], ..., [...path, i]))
DecodeElements(st, val, res, star, typeTags, path, i) ==
  IF st.threw # "none" \/ i > Len(st.h[val].vals) THEN Result(Ref(res), st.h, st.ptrs, st.threw)
  ELSE LET t == IF star THEN typeTags[1]
                ELSE IF i <= Len(typeTags) THEN typeTags[i] ELSE <<>>
           r == decodeValue(st, st.h[val].vals[i], t, Append(path, Num(i - 1)))
       IN IF r.threw # "none" THEN r
          ELSE DecodeElements(Result(Undefined,
                                     [r.h EXCEPT ![res] = Array(Append(@.vals, r.v))],
                                     r.ptrs, r.threw),
                              val, res, star, typeTags, path, i + 1)

\* for (const key in val) { [name, t] = parseKeyWithTags(key); res[name] = decodeValue(...) }
DecodeProperties(st, val, res, keys, path, i) ==
  IF st.threw # "none" \/ i > Len(keys) THEN Result(Ref(res), st.h, st.ptrs, st.threw)
  ELSE LET parsed == parseKeyWithTags(keys[i].v)
           r == decodeValue(st, GetProp(st.h[val], keys[i]), parsed.tag,
                            Append(path, Str(parsed.name)))
       IN IF r.threw # "none" THEN r
          ELSE DecodeProperties(Result(Undefined,
                                       [r.h EXCEPT ![res] = SetProp(@, Str(parsed.name), r.v)],
                                       r.ptrs, r.threw),
                                val, res, keys, path, i + 1)

\* decode(data) called while another decode is in phase 1: it empties the
\* module's pointers2Res, fills it, resolves it and leaves it as it is
DecodeNested(st, val) ==
  LET r == decodeValue(Result(Undefined, st.h, <<>>, "none"), val, <<>>, <<>>)
  IN IF r.threw # "none" THEN r
     ELSE LET q == ResolveAll(r.h, r.v, r.ptrs, 1)
          IN Result(r.v, q.h, r.ptrs, q.threw)

\* decode(data), phase 1: pointers2Res = []; result = decodeValue(data, undefined, [])
\* decode(data): pointers2Res = [], whatever earlier calls have left in it
StaleBacklog(ptrs) == ptrs

ResetBacklog(ptrs) == <<>>

DecodeCall ==
  /\ pc \in {"encoded", "received"}
  /\ LET d == IF pc = "encoded" THEN encoded ELSE data
         r == decodeValue(Result(Undefined, heap, ResetBacklog(pointers2Res), "none"),
                          d, <<>>, <<>>)
     IN /\ data' = d
        /\ heap' = r.h
        /\ pointers2Res' = r.ptrs
        /\ todo' = IF r.threw = "none" THEN r.ptrs ELSE <<>>
        /\ decoded' = IF r.threw = "none" THEN r.v ELSE Undefined
        /\ threw' = r.threw
        /\ pc' = IF r.threw = "none" THEN "resolving" ELSE "threw"
  /\ UNCHANGED <<regVars, input, visitedEncode, stack, encoded, text>>

\* decode(data), phase 2: one callback of pointers2Res.forEach
DecodeResolve ==
  /\ pc \in {"resolving", "resolving again"} /\ todo # <<>>
  /\ LET r == resolvePointers(heap, decoded, Head(todo))
     IN /\ heap' = r.h
        /\ threw' = r.threw
        /\ todo' = IF r.threw = "none" THEN Tail(todo) ELSE <<>>
        /\ pc' = IF r.threw = "none" THEN pc
                 ELSE IF pc = "resolving" THEN "threw" ELSE "threw again"
  /\ UNCHANGED <<regVars, input, visitedEncode, stack, encoded, text, pointers2Res, data,
                 decoded>>

\* decode(data): return result
DecodeDone ==
  /\ pc \in {"resolving", "resolving again"} /\ todo = <<>>
  /\ pc' = IF pc = "resolving" THEN "decoded" ELSE "decoded again"
  /\ UNCHANGED <<regVars, heap, input, visitedEncode, stack, encoded, text, pointers2Res,
                 data, todo, decoded, threw>>

\* A later decode call, after one that returned or threw: on the same data or
\* on an object or array among its properties or elements
LaterInputs ==
  IF IsRef(data)
  THEN {data} \cup { Ref(i) : i \in { n \in 1..Len(heap) :
                                       /\ heap[n].kind \in {"obj", "arr"}
                                       /\ \E j \in 1..Len(heap[data.v].vals) :
                                            heap[data.v].vals[j] = Ref(n) } }
  ELSE {data}

DecodeAgain ==
  /\ pc \in {"decoded", "threw"} /\ data # Undefined
  /\ \E d \in LaterInputs :
       LET r == decodeValue(Result(Undefined, heap, ResetBacklog(pointers2Res), "none"),
                            d, <<>>, <<>>)
       IN /\ data' = d
          /\ heap' = r.h
          /\ pointers2Res' = r.ptrs
          /\ todo' = IF r.threw = "none" THEN r.ptrs ELSE <<>>
          /\ decoded' = IF r.threw = "none" THEN r.v ELSE Undefined
          /\ threw' = r.threw
          /\ pc' = IF r.threw = "none" THEN "resolving again" ELSE "threw again"
  /\ UNCHANGED <<regVars, input, visitedEncode, stack, encoded, text>>

----------------------------------------------------------------------------
(* JSON.stringify and JSON.parse, with the JSON text kept as its syntax tree *)

JNull == [k |-> "null"]
Circular == [k |-> "circular"]

\* Date.prototype.toISOString, for the first ten milliseconds of the epoch
toISOString(t) ==
  <<"1", "9", "7", "0", "-", "0", "1", "-", "0", "1", "T", "0", "0", ":", "0", "0", ":",
    "0", "0", ".", "0", "0">> \o NumToStr(t) \o <<"Z">>

\* JSON.stringify(v): the tree, or Circular where it throws.  A property whose
\* value is undefined is left out; an undefined array element becomes null; a
\* Date becomes its toJSON string; a Map, Set, RegExp or Error has no enumerable
\* property and becomes {}.
RECURSIVE ToJSON(_, _, _)
ToJSON(h, x, ancestors) ==
  IF x.k = "undef" THEN JNull
  ELSE IF ~IsRef(x) THEN x
  ELSE IF x.v \in ancestors THEN Circular
  ELSE LET o == h[x.v] IN
       CASE o.kind = "date" ->
              IF o.data[1].k = "num" THEN Str(toISOString(o.data[1].v)) ELSE JNull
         [] o.kind = "arr" ->
              LET items == [i \in 1..Len(o.vals) |-> ToJSON(h, o.vals[i], ancestors \cup {x.v})]
              IN IF \E i \in 1..Len(items) : items[i] = Circular THEN Circular
                 ELSE [k |-> "jarr", keys |-> <<>>, items |-> items]
         [] o.kind = "obj" ->
              LET kept == SelectSeq([i \in 1..Len(o.keys) |-> i], LAMBDA i : o.vals[i] # Undefined)
                  items == [n \in 1..Len(kept) |->
                              ToJSON(h, o.vals[kept[n]], ancestors \cup {x.v})]
              IN IF \E i \in 1..Len(items) : items[i] = Circular THEN Circular
                 ELSE [k |-> "jobj", keys |-> [n \in 1..Len(kept) |-> o.keys[kept[n]]],
                       items |-> items]
         [] OTHER -> [k |-> "jobj", keys |-> <<>>, items |-> <<>>]

\* JSON.parse(text): the value and the heap with the objects it creates
RECURSIVE FromJSON(_, _)
RECURSIVE ParseItems(_, _, _, _)
FromJSON(h, tree) ==
  IF tree.k = "jarr" THEN ParseItems(Append(h, Array(<<>>)), Len(h) + 1, tree, 1)
  ELSE IF tree.k = "jobj" THEN ParseItems(Append(h, PlainObject(<<>>, <<>>)), Len(h) + 1, tree, 1)
  ELSE [v |-> tree, h |-> h]

ParseItems(h, id, tree, i) ==
  IF i > Len(tree.items) THEN [v |-> Ref(id), h |-> h]
  ELSE LET r == FromJSON(h, tree.items[i])
       IN ParseItems([r.h EXCEPT ![id] =
                        IF tree.k = "jarr" THEN Array(Append(@.vals, r.v))
                        ELSE SetProp(@, Str(tree.keys[i]), r.v)],
                     id, tree, i + 1)

\* stringify(obj), after encode returned: return JSON.stringify(...)
Stringify ==
  /\ pc = "encoded"
  /\ LET tree == ToJSON(heap, encoded, {})
     IN IF tree = Circular
        THEN /\ threw' = "TypeError"
             /\ pc' = "threw"
             /\ UNCHANGED text
        ELSE /\ text' = tree
             /\ pc' = "stringified"
             /\ UNCHANGED threw
  /\ UNCHANGED <<regVars, heap, input, visitedEncode, stack, encoded, pointers2Res, data,
                 todo, decoded>>

\* parse(encoded): decode(JSON.parse(encoded)), up to the end of phase 1
Parse ==
  /\ pc = "stringified"
  /\ LET parsed == FromJSON(heap, text)
         r == decodeValue(Result(Undefined, parsed.h, ResetBacklog(pointers2Res), "none"),
                          parsed.v, <<>>, <<>>)
     IN /\ data' = parsed.v
        /\ heap' = r.h
        /\ pointers2Res' = r.ptrs
        /\ todo' = IF r.threw = "none" THEN r.ptrs ELSE <<>>
        /\ decoded' = IF r.threw = "none" THEN r.v ELSE Undefined
        /\ threw' = r.threw
        /\ pc' = IF r.threw = "none" THEN "resolving" ELSE "threw"
  /\ UNCHANGED <<regVars, input, visitedEncode, stack, encoded, text>>

----------------------------------------------------------------------------
(* The values and registries the pipeline is run on *)

\* A custom plugin, by the names of its three functions
Plugin(tag, check, enc, dec) ==
  [tag |-> tag,
   cfg |-> [k |-> "obj", check |-> Fn(check), encode |-> Fn(enc), decode |-> Fn(dec),
            onSend |-> Undefined, onReceive |-> Undefined]]

RegistryInputs ==
  { <<>>,
    <<Plugin(<<"X">>, "isNumber", "identity", "identity")>>,
    <<Plugin(<<"N">>, "isObject", "identity", "identity")>>,
    <<Plugin(<<"X">>, "isNumber", "identity", "identity"),
      Plugin(<<"A">>, "always", "identity", "identity")>> }

KeyLists(n) ==
  { ks \in { <<>>, << <<"a">> >>, << <<"a">>, <<"b">> >>, << <<>> >>,
             << <<"a">>, <<"b">>, <<>> >>, << <<"x", "<", "!", "D", ">">> >> } : Len(ks) <= n }

FieldVals == {Undefined, Num(1)} \cup { Ref(i) : i \in 1..MaxObjs }

ValLists(n) == UNION { [1..m -> FieldVals] : m \in 0..n }

DateAt(t) == Obj("date", <<>>, <<>>, <<Num(t)>>)

\* /a/, /a/g and /a/d: a RegExp by its source and its flags
RegExpObject(source, flags) == Obj("regexp", <<>>, <<>>, <<Str(source), Str(flags)>>)

RegExpInputs == { RegExpObject(<<"a">>, flags) : flags \in { <<>>, <<"g">>, <<"d">> } }

\* new TypeError("m"), and an Error given a name no global has
ErrorInputs ==
  { ErrorObject(TypeErrorName, Str(TypeErrorName), Str(<<"m">>), Str(<<"s">>)),
    ErrorObject(ErrorName, Str(CustomErrorName), Str(<<"m">>), Str(<<"s">>)) }

\* Plain objects, arrays, Maps, Sets (distinct elements), a Date and Errors
Shapes(n) ==
  UNION { { Obj(kind, ks, vs, <<>>) : vs \in [1..Len(ks) -> FieldVals] } :
            ks \in KeyLists(n), kind \in {"obj", "map"} }
  \cup { Array(vs) : vs \in ValLists(n) }
  \cup { Obj("set", <<>>, vs, <<>>) :
           vs \in { w \in ValLists(n) : \A i, j \in 1..Len(w) : w[i] = w[j] => i = j } }
  \cup { DateAt(0) }
  \cup ErrorInputs
  \cup RegExpInputs

Refers(o, i) == \E j \in 1..Len(o.vals) : o.vals[j] = Ref(i)

\* Graphs of MaxObjs objects; an object the first one does not refer to is a Date
InputHeaps ==
  { h \in [1..MaxObjs -> Shapes(MaxFields)] :
      \A i \in 2..MaxObjs :
        /\ Len(h[i].vals) <= (IF h[i].kind = "arr" THEN MaxElems ELSE MaxInner)
        /\ ~Refers(h[1], i) => h[i] = DateAt(0) }

PrimitiveRoots == {Num(1), Null, Undefined}

\* The documented example: const a = { name: 'a' }; const b = { name: 'b', ref: a };
\* a.ref = b; and the root { a, b }
MutualExample ==
  << PlainObject(<< <<"a">>, <<"b">> >>, <<Ref(2), Ref(3)>>),
     PlainObject(<< <<"n", "a", "m", "e">>, <<"r", "e", "f">> >>, <<Str(<<"a">>), Ref(3)>>),
     PlainObject(<< <<"n", "a", "m", "e">>, <<"r", "e", "f">> >>, <<Str(<<"b">>), Ref(2)>>) >>

Idle ==
  /\ builtInPlugins = BuiltInTable
  /\ lastCall = NoCall
  /\ visitedEncode = {}
  /\ stack = <<>>
  /\ encoded = Undefined
  /\ text = Undefined
  /\ pointers2Res = <<>>
  /\ todo = <<>>
  /\ decoded = Undefined
  /\ threw = "none"

\* { a: [1, null] }: an array of a number and a value that gets no tag, and a
\* plugin for numbers registered under the tag ","
MixedArrayExample ==
  << PlainObject(<< <<"a">> >>, <<Ref(2)>>), Array(<<Num(1), Null>>) >>

CommaRegistry == <<Plugin(<<",">>, "isNumber", "identity", "identity")>>

InitEncode ==
  /\ Idle
  /\ data = Undefined
  /\ heap \in InputHeaps \cup {MutualExample, MixedArrayExample}
  /\ plugins \in RegistryInputs \cup (IF heap = MixedArrayExample THEN {CommaRegistry} ELSE {})
  /\ input \in {Ref(1)} \cup (IF heap[1] = DateAt(0) THEN PrimitiveRoots ELSE {})
  /\ pc = "ready"

\* Data received from a peer: a root with pointers to itself ("a<!P>", "b<!P>")
\* around a value tagged for a custom plugin ("n<!N>"), itself an object with or
\* without a pointer ("s<!P>") to its own root.
WireKeyLists ==
  { << <<"n", "<", "!", "N", ">">> >>,
    << <<"a", "<", "!", "P", ">">>, <<"n", "<", "!", "N", ">">> >>,
    << <<"n", "<", "!", "N", ">">>, <<"b", "<", "!", "P", ">">> >>,
    << <<"a", "<", "!", "P", ">">>, <<"n", "<", "!", "N", ">">>,
       <<"b", "<", "!", "P", ">">> >> }

WireInner ==
  { PlainObject(<<>>, <<>>),
    PlainObject(<< <<"s", "<", "!", "P", ">">> >>, <<Ref(3)>>),
    PlainObject(<< <<"s">> >>, <<Num(1)>>) }

WireHeaps ==
  { << PlainObject(ks, [i \in 1..Len(ks) |-> IF ks[i][1] = "n" THEN Ref(2) ELSE Ref(3)]),
       inner, Array(<<>>) >> : ks \in WireKeyLists, inner \in WireInner }

\* Data received from a peer that no encode of this library has produced: a
\* root { a: 1, "p<!tag>": value } whose tag is unknown, whose pointer path
\* leads nowhere, or whose value does not have the shape the tag's plugin expects
WireKey(name, tag) == name \o <<"<", "!">> \o tag \o <<">">>

WireCase(tag, val, others) ==
  <<PlainObject(<< <<"a">>, WireKey(<<"p">>, tag) >>, <<Num(1), val>>)>> \o others

ErrorTuple(name) == Array(<<Str(name), Str(<<"m">>), Str(<<"s">>)>>)

\* Two pointers, the first to the place of the second or to a property of it:
\* { "a<!P>": path, "b<!P>": [] }
WirePointerPairs ==
  { << PlainObject(<<WireKey(<<"a">>, <<"P">>), WireKey(<<"b">>, <<"P">>)>>, <<Ref(2), Ref(3)>>),
       Array(path), Array(<<>>) >> :
      path \in { <<Str(<<"b">>)>>, <<Str(<<"b">>), Str(<<"x">>)>> } }

\* Arrays of timestamps under array tags of both forms:
\* { a: 1, "p<![*D]>": [0, 1] }, { a: 1, "p<![,,[D]]>": [1, 1, [0]] }, ...
WireArrays ==
  { WireCase(<<"[", "*", "D", "]">>, Ref(2), <<Array(<<Num(0), Num(1)>>)>>),
    WireCase(<<"[", "D", ",", "D", "]">>, Ref(2), <<Array(<<Num(0), Num(1)>>)>>),
    WireCase(<<"[", ",", ",", "[", "D", "]", "]">>, Ref(2),
             <<Array(<<Num(1), Num(1), Ref(3)>>), Array(<<Num(0)>>)>>),
    WireCase(<<"[", "[", ",", "D", "]", ",", "D", "]">>, Ref(2),
             <<Array(<<Ref(3), Num(0)>>), Array(<<Num(1), Num(0)>>)>>),
    WireCase(<<"[", "*", "[", ",", "D", "]", "]">>, Ref(2),
             <<Array(<<Ref(3), Ref(4)>>), Array(<<Num(1), Num(0)>>),
               Array(<<Num(1), Num(1)>>)>>),
    WireCase(<<"[", "*", "[", "*", "D", "]", "]">>, Ref(2),
             <<Array(<<Ref(3)>>), Array(<<Num(0), Num(1)>>)>>),
    WireCase(<<"[", "*", "D", "]">>, Ref(2), <<Array(<<>>)>>) }

WireCases ==
  { WireCase(<<"Z", "Z">>, Num(5), <<>>),
    WireCase(<<"Z", "Z">>, Ref(2), <<Array(<<Num(1)>>)>>),
    WireCase(<<"Z", "Z">>, Ref(2), <<PlainObject(<<WireKey(<<"d">>, <<"D">>)>>, <<Num(0)>>)>>),
    WireCase(<<"Z", "Z">>, Ref(2), <<PlainObject(<<WireKey(<<"s">>, <<"P">>)>>, <<Ref(3)>>),
                                     Array(<<Str(<<"q">>), Str(<<"r">>)>>)>>),
    WireCase(<<"P">>, Num(5), <<>>),
    WireCase(<<"P">>, Null, <<>>),
    WireCase(<<"R">>, Num(5), <<>>),
    WireCase(<<"E">>, Num(5), <<>>),
    WireCase(<<"E">>, Null, <<>>),
    WireCase(<<"E">>, Ref(2), <<Array(<<Str(CustomErrorName)>>)>>),
    WireCase(<<"S">>, Num(5), <<>>),
    WireCase(<<"S">>, Ref(2), <<Array(<<Num(1)>>)>>),
    WireCase(<<"M">>, Null, <<>>),
    WireCase(<<"M">>, Ref(2), <<PlainObject(<< <<"a">> >>, <<Num(1)>>)>>) }
  \cup { WireCase(<<"P">>, Ref(2), <<Array(path)>>) :
           path \in { <<>>, <<Str(<<"a">>)>>, <<Str(<<"p">>)>>, <<Str(<<"q">>)>>,
                      <<Str(<<"a">>), Str(<<"r">>)>>, <<Str(<<"q">>), Str(<<"r">>)>> } }
  \cup { WireCase(<<"E">>, Ref(2), <<ErrorTuple(name)>>) :
           name \in {ErrorName, TypeErrorName, CustomErrorName, ObjectName, MathName} }
  \cup WirePointerPairs
  \cup WireArrays

DecodeRegistryInputs ==
  { <<>>,
    <<Plugin(<<"N">>, "isObject", "identity", "identity")>>,
    <<Plugin(<<"N">>, "isObject", "identity", "reenter")>> }

InitDecode ==
  /\ Idle
  /\ plugins \in DecodeRegistryInputs
  /\ heap \in WireHeaps \cup WireCases
  /\ input = Undefined
  /\ data = Ref(1)
  /\ pc = "received"

Init ==
  \/ InitEncode
  \/ InitDecode

Next ==
  \/ EncodeCall
  \/ EncodeStep
  \/ Stringify
  \/ Parse
  \/ DecodeCall
  \/ DecodeResolve
  \/ DecodeDone
  \/ DecodeAgain

Spec == Init /\ [][Next]_vars

----------------------------------------------------------------------------
(* Claims about encode, stringify, decode and parse, checked under Spec *)

\* The objects an object refers to (properties, elements, Map and Set contents)
Succ(h, i) == { h[i].vals[j].v : j \in { n \in 1..Len(h[i].vals) : IsRef(h[i].vals[n]) } }

RECURSIVE ReachFrom(_, _)
ReachFrom(h, S) ==
  LET T == S \cup UNION { Succ(h, i) : i \in S }
  IN IF T = S THEN S ELSE ReachFrom(h, T)

\* The objects of the graph of a value, and whether the graph has a cycle
Graph(h, x) == IF IsRef(x) THEN ReachFrom(h, {x.v}) ELSE {}
OnCycle(h, i) == i \in ReachFrom(h, Succ(h, i))
Cyclic(h, x) == \E i \in Graph(h, x) : OnCycle(h, i)
HoldsUndefined(h, x) ==
  \E i \in Graph(h, x) : \E j \in 1..Len(h[i].vals) : h[i].vals[j] = Undefined

\* The pipeline was given a value to encode; decode(encode(v)) or
\* parse(stringify(v)) has come to its end, by a return or by an exception;
\* decode(encode(v)) has, once encode had returned
Encoding == input # Undefined \/ data = Undefined
Ended == Encoding /\ pc \in {"decoded", "threw"}
DirectEnded == Ended /\ text = Undefined /\ data # Undefined

\* Deep equality that also compares the runtime type: same kind of object, same
\* data, same keys, deep-equal values; Map entries and Set elements in order.
RECURSIVE DeepEq(_, _, _, _)
DeepEq(h, x, y, seen) ==
  IF ~IsRef(x) \/ ~IsRef(y) THEN x = y
  ELSE IF <<x.v, y.v>> \in seen THEN TRUE
  ELSE LET a == h[x.v]
           b == h[y.v]
           now == seen \cup {<<x.v, y.v>>}
       IN /\ a.kind = b.kind
          /\ a.data = b.data
          /\ Len(a.vals) = Len(b.vals)
          /\ IF a.kind = "obj"
             THEN /\ { a.keys[i] : i \in 1..Len(a.keys) } = { b.keys[i] : i \in 1..Len(b.keys) }
                  /\ \A i \in 1..Len(a.keys) :
                       DeepEq(h, a.vals[i], GetProp(b, Str(a.keys[i])), now)
             ELSE /\ a.keys = b.keys
                  /\ \A i \in 1..Len(a.vals) : DeepEq(h, a.vals[i], b.vals[i], now)

\* The supported values of the round trip: no custom plugin is involved, the
\* value is a JSON primitive or a finite tree of objects, arrays, Maps, Sets
\* and Dates, and undefined occurs nowhere in it
C1_Supported ==
  /\ plugins = <<>>
  /\ input # Undefined
  /\ ~Cyclic(heap, input)
  /\ ~HoldsUndefined(heap, input)

(* C1: round-trip identity: for every supported value v (JSON primitives, Date,
   Map, Set, and objects and arrays nesting these, v being the root itself or
   under a key), decode(encode(v)) and parse(stringify(v)) return a value that
   is deep-equal to v and has v's runtime types. *)
C1_RoundTrip ==
  Ended /\ C1_Supported => threw = "none" /\ DeepEq(heap, input, decoded, {})

\* The keys a path of the claims is made of, and the paths
PathKeySet == {Str(<<>>), Str(<<"a">>), Str(<<"b">>), Num(0), Num(1)}
Paths == UNION { [1..n -> PathKeySet] : n \in 0..PathLen }

\* root[p1][p2]...; undefined below anything that is not an object
RECURSIVE Nav(_, _, _, _)
Nav(h, x, path, i) ==
  IF i > Len(path) THEN x
  ELSE IF IsRef(x) THEN Nav(h, GetProp(h[x.v], path[i]), path, i + 1)
  ELSE Undefined

IsPrefix(q, p) == Len(q) < Len(p) /\ SubSeq(p, 1, Len(q)) = q

PlainGraph(h, x) == IsRef(x) /\ \A i \in Graph(h, x) : h[i].kind \in {"obj", "arr"}

\* No property of the graph has the empty name
NamesNotEmpty(h, x) ==
  \A i \in Graph(h, x) : \A j \in 1..Len(h[i].keys) : h[i].keys[j] # <<>>

(* C2: cycle identity: for an input graph of plain objects and arrays, wherever
   a position of the input refers back to the root or to an ancestor, decode
   returns, and the decoded value at that position is identical to the decoded
   object at the ancestor's position. *)
C2_CycleIdentity ==
  DirectEnded /\ plugins = <<>> /\ PlainGraph(heap, input) =>
    /\ threw = "none"
    /\ \A p \in Paths : \A q \in { r \in Paths : IsPrefix(r, p) } :
         IsRef(Nav(heap, input, p, 1)) /\ Nav(heap, input, p, 1) = Nav(heap, input, q, 1)
           => /\ IsRef(Nav(heap, decoded, p, 1))
              /\ Nav(heap, decoded, p, 1) = Nav(heap, decoded, q, 1)

(* C3: shared-reference preservation: if two positions of the input refer to
   the same object, whatever kind of object it is, the two positions of
   decode(encode(input)) refer to one and the same object (stated here for
   inputs whose property names are not empty). *)
C3_SharedReferences ==
  DirectEnded /\ plugins = <<>> /\ NamesNotEmpty(heap, input) =>
    /\ threw = "none"
    /\ \A p, q \in Paths :
         /\ Len(p) >= 1 /\ Len(q) >= 1
         /\ IsRef(Nav(heap, input, p, 1))
         /\ Nav(heap, input, p, 1) = Nav(heap, input, q, 1)
         => /\ IsRef(Nav(heap, decoded, p, 1))
            /\ Nav(heap, decoded, p, 1) = Nav(heap, decoded, q, 1)

\* A JSON-safe structure: null, booleans, numbers, strings, plain arrays and
\* plain objects at every depth, no undefined, no cycle
JsonSafe(h, x) ==
  /\ x.k \in {"null", "bool", "num", "str", "ref"}
  /\ \A i \in Graph(h, x) :
       /\ h[i].kind \in {"obj", "arr"}
       /\ \A j \in 1..Len(h[i].vals) :
            h[i].vals[j].k \in {"null", "bool", "num", "str", "ref"}
       /\ ~OnCycle(h, i)

(* C4: what encode returns is a JSON-safe plain structure: at every depth only
   null, booleans, numbers, strings, plain arrays and plain objects, no Date,
   Map, Set or undefined and no cycle, also for what a Map or Set contains. *)
C4_EncodedIsJsonSafe ==
  pc = "encoded" /\ plugins = <<>> => JsonSafe(heap, encoded)

(* C5: encode returns without throwing for every input value, a primitive, null
   or undefined root included, and stringify returns JSON text without throwing
   for every input value, a Map or Set with a cycle in its contents included. *)
C5_NeverThrows ==
  Encoding /\ plugins = <<>> /\ data = Undefined => pc # "threw"

\* The work encode has left: the objects not yet visited, each worth more than
\* the loop it will open, the keys the open loops have yet to handle, and the
\* calls that have yet to return
RECURSIVE KeysLeft(_)
KeysLeft(frames) ==
  IF frames = <<>> THEN 0
  ELSE (Len(Head(frames).keys) + 1 - Head(frames).i) + KeysLeft(Tail(frames))

Work ==
  Cardinality(UNION { {i} \X (0..(Len(heap[i].vals) + 1)) :
                      i \in { n \in Graph(heap, input) : ~IsVisited(n) } })
  + KeysLeft(stack) + Len(stack)

\* encodeValueWithVisited is never entered deeper than there are objects
RoomOnStack ==
  pc = "encoding" => stack # <<>> /\ Len(stack) <= Cardinality(Graph(heap, input))

(* C6: encode terminates on every finite input graph, with cycles through plain
   objects and arrays, through Map or Set contents, or through values a custom
   plugin claims: every step of encode strictly decreases the work that is left,
   a natural number, and the recursion is never deeper than the graph has
   objects. *)
C6_EncodeTerminates ==
  /\ [](RoomOnStack /\ Work >= 0)
  /\ [][EncodeStep => Work' < Work]_vars

C6_Witness ==
  /\ pc = "encoded"
  /\ Cyclic(heap, input)
  /\ Cardinality(visitedEncode) = MaxObjs
  /\ \E i \in Graph(heap, encoded) : \E j \in 1..Len(heap[i].keys) :
       parseKeyWithTags(heap[i].keys[j]).tag = <<"P">>

\* The names and tags of the properties of the received root
WireRoot == heap[data.v]
WireName(i) == parseKeyWithTags(WireRoot.keys[i]).name
WireTag(i) == parseKeyWithTags(WireRoot.keys[i]).tag

(* C7: each decode call owns its pointer backlog: when a decode call B runs to
   its end inside a custom plugin's decode while decode call A is in phase 1,
   every pointer A recorded, before B and after B, is resolved against A's
   result, and no pointer B recorded is applied to A's result. *)
C7_OwnPointerBacklog ==
  /\ ~Encoding /\ pc \in {"decoded", "threw"}
  /\ \E i \in 1..Len(WireRoot.keys) : WireTag(i) = <<"N">>
  =>
    /\ threw = "none"
    /\ \A i \in 1..Len(WireRoot.keys) :
         WireTag(i) = <<"P">> => GetProp(heap[decoded.v], Str(WireName(i))) = decoded
    /\ { heap[decoded.v].keys[j] : j \in 1..Len(heap[decoded.v].keys) }
         = { WireName(i) : i \in 1..Len(WireRoot.keys) }

----------------------------------------------------------------------------
(* Claims about how encode classifies and tags values, checked under Spec *)

\* The tag a value must get by the documented priority: the built-in tag of a
\* built-in type; else the tag of the first registered plugin whose check
\* accepts; else P for an object met before, "recurse" for one not met before,
\* and no tag for a primitive
C11_BuiltInTagOf(h, value) ==
  IF value.k = "undef" THEN <<"U">>
  ELSE IF ~IsRef(value) THEN <<>>
  ELSE CASE h[value.v].kind = "date" -> <<"D">>
         [] h[value.v].kind = "regexp" -> <<"R">>
         [] h[value.v].kind = "error" -> <<"E">>
         [] h[value.v].kind = "map" -> <<"M">>
         [] h[value.v].kind = "set" -> <<"S">>
         [] OTHER -> <<>>

C11_Accepting(h, key, value) ==
  { i \in 1..Len(plugins) : PluginCheck(h, plugins[i].cfg.check.v, key, value) }

C11_Expected(h, key, value) ==
  IF C11_BuiltInTagOf(h, value) # <<>> THEN C11_BuiltInTagOf(h, value)
  ELSE IF C11_Accepting(h, key, value) # {}
       THEN plugins[CHOOSE i \in C11_Accepting(h, key, value) :
                      \A j \in C11_Accepting(h, key, value) : i <= j].tag
  ELSE IF IsRef(value) THEN (IF IsVisited(value.v) THEN <<"P">> ELSE <<"r", "e", "c">>)
  ELSE <<>>

\* The tag the step that handled the current key gave it: the slot it pushed
\* on typesFound, or the tag of the key it wrote into the result
EmittedBy(f, g, key) ==
  IF ~f.root /\ heap[f.val].kind = "arr" THEN g.types[Len(g.types)]
  ELSE LET new == { heap'[f.res].keys[j] : j \in 1..Len(heap'[f.res].keys) }
                  \ { heap[f.res].keys[j] : j \in 1..Len(heap[f.res].keys) }
       IN IF new = {} THEN <<"n", "o", "n", "e">>
          ELSE LET k == CHOOSE k \in new : TRUE
                   n == Len(KeyStr(key))
               IN IF Len(k) = n THEN <<>> ELSE SubSeq(k, n + 3, Len(k) - 1)

C11_Emitted == EmittedBy(Top, stack'[Len(stack)], TopKey)

(* C11: encode classifies each value by a fixed priority: a value of a built-in
   type gets its built-in tag whatever the custom checks say; otherwise the
   first plugin in registration order whose check accepts supplies the tag and
   the encoded value; only when no plugin accepts is an object pointed to or
   recursed into and a primitive passed through untagged. *)
C11_ClassifiedByPriority ==
  [][ Callable /\ EncodeStep =>
        LET want == C11_Expected(heap, TopKey, TopChild)
        IN IF want = <<"r", "e", "c">> THEN Len(stack') = Len(stack) + 1
           ELSE /\ Len(stack') = Len(stack)
                /\ \/ C11_Emitted = want
                   \/ TopChild = Undefined /\ C11_Emitted = <<"n", "o", "n", "e">> ]_vars

C11_Witness ==
  /\ pc = "encoded"
  /\ Len(plugins) = 2
  /\ \E j \in 1..Len(heap[encoded.v].keys) :
       parseKeyWithTags(heap[encoded.v].keys[j]).tag = <<"X">>
  /\ \E j \in 1..Len(heap[encoded.v].keys) :
       parseKeyWithTags(heap[encoded.v].keys[j]).tag = <<"M">>

\* The slots of a per-element tag: the tags of the elements, separated by commas
RECURSIVE C12_Slots(_)
C12_Slots(types) ==
  IF types = <<>> THEN <<>>
  ELSE types[1] \o (IF Len(types) > 1 THEN <<",">> \o C12_Slots(Tail(types)) ELSE <<>>)

C12_ReturnsArray ==
  /\ pc = "encoding" /\ Len(stack) > 1 /\ Top.i > Len(Top.keys)
  /\ heap[Top.val].kind = "arr"

C12_Caller == stack[Len(stack) - 1]

(* C12: a nested array with at least one tagged element is tagged [*t] exactly
   when every element's tag is non-empty and equal to t, and otherwise
   [t0,t1,...] with one slot per element, empty for an untagged element; an
   array with no tagged element carries no tag. *)
C12_ArrayTagForm ==
  [][ C12_ReturnsArray /\ EncodeStep =>
        LET types == Top.types
            tag == EmittedBy(C12_Caller, stack'[Len(stack) - 1],
                             C12_Caller.keys[C12_Caller.i])
            compact == { t \in { types[i] : i \in 1..Len(types) } :
                           t # <<>> /\ \A i \in 1..Len(types) : types[i] = t }
        IN /\ Len(types) = Len(heap[Top.val].vals)
           /\ IF \A i \in 1..Len(types) : types[i] = <<>> THEN tag = <<>>
              ELSE /\ \A t \in compact : tag = <<"[", "*">> \o t \o <<"]">>
                   /\ compact = {} => tag = <<"[">> \o C12_Slots(types) \o <<"]">>
                   /\ StartsWith(tag, <<"[", "*">>) => compact # {} ]_vars

\* an encoded array whose second element alone was tagged: [,U]
C12_Witness ==
  /\ pc = "encoded"
  /\ \E j \in 1..Len(heap[encoded.v].keys) :
       LET k == heap[encoded.v].keys[j] IN
       /\ EndsWith(k, ">")
       /\ \E n \in 1..Len(k) : SubSeq(k, n, Len(k)) = <<"<", "!", "[", ",", "U", "]", ">">>

\* The arrays of the input other than the root, by the paths that lead to them
C14_NestedArrayPaths ==
  { p \in Paths : Len(p) >= 1 /\ IsArray(heap, Nav(heap, input, p, 1)) }

\* The array at a path of the input came back with its length and its undefined
\* elements
C14_SameUndefined(p) ==
  LET a == Nav(heap, input, p, 1)
      b == Nav(heap, decoded, p, 1)
  IN /\ IsArray(heap, b)
     /\ Len(heap[b.v].vals) = Len(heap[a.v].vals)
     /\ \A i \in 1..Len(heap[a.v].vals) :
          heap[a.v].vals[i] = Undefined => heap[b.v].vals[i] = Undefined

\* The undefined elements of a root array are in the encoded output as null
\* under the key "<index><!U>"
C14_RootKept ==
  pc = "encoded" /\ IsArray(heap, input) =>
    \A i \in 1..Len(heap[input.v].vals) :
      heap[input.v].vals[i] = Undefined =>
        /\ IndexOfKey(heap[encoded.v].keys, NumToStr(i - 1) \o <<"<", "!", "U", ">">>) # 0
        /\ GetProp(heap[encoded.v], Str(NumToStr(i - 1) \o <<"<", "!", "U", ">">>)) = Null

\* without custom plugins and empty property names, the arrays below a root
\* that is a plain object come back with their length and undefined elements
C14_NestedKept ==
  /\ DirectEnded /\ plugins = <<>> /\ NamesNotEmpty(heap, input) /\ threw = "none"
  /\ IsRef(input) /\ heap[input.v].kind = "obj"
  => \A p \in C14_NestedArrayPaths : C14_SameUndefined(p)

(* C14: every undefined element of an array, at any depth and also when the
   array is the root given to encode, is kept in the encoded output as null
   tagged U, and the decoded array has the same length with undefined at the
   same indices. *)
C14_UndefinedElementsKept ==
  /\ C14_RootKept
  /\ C14_NestedKept
  /\ DirectEnded /\ plugins = <<>> /\ IsArray(heap, input) /\ threw = "none" =>
       \A p \in C14_NestedArrayPaths \cup {<<>>} : C14_SameUndefined(p)

\* The keys of an object, as a set
KeySet(o) == { o.keys[j] : j \in 1..Len(o.keys) }

\* encode is in the loop over the properties of a plain object, at the root or
\* below it, or returns from a nested call into such a loop
C15_InObjectLoop == InLoop /\ heap[Top.val].kind = "obj"
C15_ReturnsToObject ==
  /\ pc = "encoding" /\ Len(stack) > 1 /\ Top.i > Len(Top.keys)
  /\ heap[C12_Caller.val].kind = "obj"

\* The properties and the encoded keys of a root that is a plain object
C15_Defined(o) == { o.keys[j] : j \in { n \in 1..Len(o.keys) : o.vals[n] # Undefined } }
C15_EncodesName(k, name) ==
  \/ k = name
  \/ /\ StartsWith(k, name \o <<"<", "!">>) /\ EndsWith(k, ">")

(* C15: a property of a plain object whose value is undefined, at the root or in
   a nested object, is omitted from the encoded output: neither key nor key<!U>
   appears, and every other property of the object is emitted. *)
C15_UndefinedPropertyOmitted ==
  /\ [][ C15_InObjectLoop /\ EncodeStep =>
           IF TopChild = Undefined
           THEN /\ heap'[Top.res] = heap[Top.res]
                /\ stack'[Len(stack)].i = Top.i + 1
           ELSE \/ Len(stack') = Len(stack) + 1
                \/ /\ KeySet(heap'[Top.res]) \ KeySet(heap[Top.res]) # {}
                   /\ \A k \in KeySet(heap'[Top.res]) \ KeySet(heap[Top.res]) :
                        C15_EncodesName(k, KeyStr(TopKey)) ]_vars
  /\ [][ C15_ReturnsToObject /\ EncodeStep =>
           /\ KeySet(heap'[C12_Caller.res]) \ KeySet(heap[C12_Caller.res]) # {}
           /\ \A k \in KeySet(heap'[C12_Caller.res]) \ KeySet(heap[C12_Caller.res]) :
                C15_EncodesName(k, KeyStr(C12_Caller.keys[C12_Caller.i])) ]_vars
  /\ [](pc = "encoded" /\ heap[input.v].kind = "obj" =>
          /\ Len(heap[encoded.v].keys) = Cardinality(C15_Defined(heap[input.v]))
          /\ \A name \in C15_Defined(heap[input.v]) :
               \E k \in KeySet(heap[encoded.v]) : C15_EncodesName(k, name)
          /\ \A name \in KeySet(heap[input.v]) \ C15_Defined(heap[input.v]) :
               /\ name \notin KeySet(heap[encoded.v])
               /\ name \o <<"<", "!", "U", ">">> \notin KeySet(heap[encoded.v]))

\* an object nested under the root had an undefined property and the root had
\* an undefined property next to a defined one
C15_Witness ==
  /\ pc = "encoded"
  /\ heap[input.v].kind = "obj"
  /\ Len(heap[input.v].keys) = 2
  /\ Cardinality(C15_Defined(heap[input.v])) = 1
  /\ \E i \in Graph(heap, input) \ {input.v} :
       /\ heap[i].kind = "obj" /\ heap[i].vals = <<Undefined>>
       /\ \E j \in Graph(heap, encoded) \ {encoded.v} :
            heap[j].kind = "obj" /\ heap[j].keys = <<>>

(* C16: undefined is preserved: an object property whose value is undefined is
   encoded as null under a U-tagged key rather than omitted, and after
   parse(stringify(o)) the property is present with the value undefined, which
   tells it from a missing property. *)
C16_UndefinedPropertyPreserved ==
  /\ pc = "encoded" /\ heap[input.v].kind = "obj" /\ NamesNotEmpty(heap, input) =>
       \A name \in KeySet(heap[input.v]) \ C15_Defined(heap[input.v]) :
         /\ name \o <<"<", "!", "U", ">">> \in KeySet(heap[encoded.v])
         /\ GetProp(heap[encoded.v], Str(name \o <<"<", "!", "U", ">">>)) = Null
  /\ Ended /\ text # Undefined /\ threw = "none" /\ heap[input.v].kind = "obj" =>
       /\ IsRef(decoded)
       /\ \A name \in KeySet(heap[input.v]) \ C15_Defined(heap[input.v]) :
            name \in KeySet(heap[decoded.v])

\* encode meets again a plain object or array that no plugin claims
C22_MeetsAgain ==
  /\ Callable /\ IsObject(TopChild)
  /\ heap[TopChild.v].kind \in {"obj", "arr"}
  /\ C11_Accepting(heap, TopKey, TopChild) = {}
  /\ IsVisited(TopChild.v)

(* C22: during one encode call every object or array of the input graph has its
   content encoded at most once: encode enters an object only if it has not
   been visited, records it, never forgets a record, and emits every later
   encounter of the object as a P pointer without entering it again. *)
C22_EncodedOnce ==
  /\ [][ EncodeRecurse =>
           /\ ~IsVisited(TopChild.v)
           /\ \E e \in visitedEncode' : e[1] = TopChild.v ]_vars
  /\ [][ pc = "encoding" /\ pc' = "encoding" => visitedEncode \subseteq visitedEncode' ]_vars
  /\ [](\A e1, e2 \in visitedEncode : e1[1] = e2[1] => e1 = e2)
  /\ [][ C22_MeetsAgain /\ EncodeStep =>
           /\ Len(stack') = Len(stack)
           /\ C11_Emitted = <<"P">> ]_vars

\* an object that two properties of the root share was entered once and
\* pointed to once
C22_Witness ==
  /\ pc = "encoded" /\ plugins = <<>>
  /\ ~Cyclic(heap, input)
  /\ Cardinality(visitedEncode) = 2
  /\ \E j \in 1..Len(heap[encoded.v].keys) :
       EndsWith(heap[encoded.v].keys[j], ">")
       /\ \E n \in 1..Len(heap[encoded.v].keys[j]) :
            SubSeq(heap[encoded.v].keys[j], n, Len(heap[encoded.v].keys[j]))
              = <<"<", "!", "P", ">">>

\* The keys encode loops over in an object it has entered
C23_Keys(h, id) ==
  IF h[id].kind = "arr" THEN IndexKeys(Len(h[id].vals)) ELSE ObjectKeys(h[id])

\* encode enters this value when it first meets it under the key
C23_Entered(h, key, value) ==
  /\ IsRef(value)
  /\ h[value.v].kind \in {"obj", "arr"}
  /\ \A i \in 1..Len(plugins) : ~PluginCheck(h, plugins[i].cfg.check.v, key, value)

\* Depth-first pre-order traversal in key order: work is the sequence of
\* <<key, value, path>> still to look at, seen the <<object, path>> pairs of the
\* objects met so far.  The result pairs every object with its first path.
RECURSIVE C23_FirstVisit(_, _, _)
C23_FirstVisit(h, work, seen) ==
  IF work = <<>> THEN seen
  ELSE LET key == Head(work)[1]
           value == Head(work)[2]
           path == Head(work)[3]
       IN IF ~C23_Entered(h, key, value) \/ \E e \in seen : e[1] = value.v
          THEN C23_FirstVisit(h, Tail(work), seen)
          ELSE C23_FirstVisit(h,
                 [j \in 1..Len(C23_Keys(h, value.v)) |->
                    <<C23_Keys(h, value.v)[j],
                      GetProp(h[value.v], C23_Keys(h, value.v)[j]),
                      Append(path, C23_Keys(h, value.v)[j])>>] \o Tail(work),
                 seen \cup {<<value.v, path>>})

\* the traversal from the root, which is at the empty path
C23_Traversal ==
  C23_FirstVisit(heap,
                 [j \in 1..Len(C23_Keys(heap, input.v)) |->
                    <<C23_Keys(heap, input.v)[j],
                      GetProp(heap[input.v], C23_Keys(heap, input.v)[j]),
                      <<C23_Keys(heap, input.v)[j]>> >>],
                 {<<input.v, <<>>>>})

\* the value the step stores under the key it is at
C23_StoredValue ==
  IF ~Top.root /\ heap[Top.val].kind = "arr"
  THEN heap'[Top.res].vals[Len(heap'[Top.res].vals)]
  ELSE GetProp(heap'[Top.res], TaggedKey(TopKey, <<"P">>))

(* C23: the value of a P pointer is the path, as an array of keys from the root,
   at which a depth-first pre-order traversal in key order first visits the
   object, the root being at the empty path: the paths encode records are those
   of the traversal, and every pointer it emits holds the recorded first path
   of the object it stands for. *)
C23_PointerIsFirstVisitPath ==
  /\ [](pc \in {"encoding", "encoded"} /\ IsRef(input)
          => /\ visitedEncode \subseteq C23_Traversal
             /\ (pc = "encoded" => visitedEncode = C23_Traversal))
  /\ [][ C22_MeetsAgain /\ EncodeStep =>
           /\ IsArray(heap', C23_StoredValue)
           /\ \E e \in C23_Traversal :
                /\ e[1] = TopChild.v
                /\ heap'[C23_StoredValue.v].vals = e[2] ]_vars

C23_HasSuffix(s, suffix) ==
  Len(s) >= Len(suffix) /\ SubSeq(s, Len(s) - Len(suffix) + 1, Len(s)) = suffix

\* a pointer to an object below the root has been emitted
C23_Witness ==
  /\ pc = "encoded"
  /\ \E e \in visitedEncode : e[2] # <<>>
  /\ \E i \in 1..Len(heap) :
       /\ heap[i].kind = "obj"
       /\ \E j \in 1..Len(heap[i].keys) :
            /\ C23_HasSuffix(heap[i].keys[j], <<"<", "!", "P", ">">>)
            /\ IsRef(heap[i].vals[j])
            /\ heap[heap[i].vals[j].v].kind = "arr"
            /\ heap[heap[i].vals[j].v].vals # <<>>
            /\ \E e \in visitedEncode : e[2] = heap[heap[i].vals[j].v].vals

\* { name: n, 'ref<!P>': [target] }
C24_Emitted(x, n, target) ==
  /\ IsRef(x)
  /\ heap[x.v].kind = "obj"
  /\ heap[x.v].keys = << <<"n", "a", "m", "e">>, <<"r", "e", "f", "<", "!", "P", ">">> >>
  /\ heap[x.v].vals[1] = Str(<<n>>)
  /\ IsArray(heap, heap[x.v].vals[2])
  /\ heap[heap[x.v].vals[2].v].vals = <<Str(<<target>>)>>

(* C24: for two mutually referencing objects a (a.ref = b) and b (b.ref = a),
   encode({ a, b }) yields { a: { name: 'a', 'ref<!P>': ['b'] },
   b: { name: 'b', 'ref<!P>': ['a'] } }: both objects are emitted in full at
   their root keys and each ref is a pointer to the other's root key. *)
C24_MutualExample ==
  /\ pc = "encoded" /\ plugins = <<>>
  /\ Len(heap) >= 3 /\ SubSeq(heap, 1, 3) = MutualExample
  => /\ heap[encoded.v].keys = << <<"a">>, <<"b">> >>
     /\ C24_Emitted(heap[encoded.v].vals[1], "a", "b")
     /\ C24_Emitted(heap[encoded.v].vals[2], "b", "a")

\* The frame whose result the step adds a key to, the property it is at, and
\* the tag encode attaches to it
C28_Storing == stack[Len(stack')]
C28_Name == C28_Storing.keys[C28_Storing.i]
C28_Tag ==
  IF Len(stack') < Len(stack)
  THEN (IF heap[Top.val].kind = "arr" THEN ArrayTag(Top.types) ELSE <<>>)
  ELSE CASE Classify(TopChild) = "builtin" -> getTagByToString(ToStringType(heap, TopChild))
         [] Classify(TopChild) = "custom" ->
              plugins[FirstMatch(heap, plugins, TopKey, TopChild)].tag
         [] Classify(TopChild) = "pointer" -> <<"P">>
         [] OTHER -> <<>>

C28_Emitted ==
  CHOOSE k \in { heap'[C28_Storing.res].keys[j] : j \in 1..Len(heap'[C28_Storing.res].keys) } :
    \A j \in 1..Len(heap[C28_Storing.res].keys) : heap[C28_Storing.res].keys[j] # k

C28_KeyAdded ==
  /\ pc = "encoding" /\ pc' = "encoding" /\ EncodeStep
  /\ Len(stack') <= Len(stack)
  /\ Len(heap'[C28_Storing.res].keys) > Len(heap[C28_Storing.res].keys)

(* C28: key tagging is unambiguous: for every original property name k, names
   that contain <!...> text and the empty name included, and every tag t that
   encode can attach, no tag included, decode splits the emitted key back into
   exactly (k, t); in particular an untagged property whose name looks like
   x<!D> is not decoded as a tagged value. *)
C28_KeyTaggingUnambiguous ==
  [][ C28_KeyAdded =>
        /\ C28_Emitted = TaggedKey(C28_Name, C28_Tag).v
        /\ parseKeyWithTags(C28_Emitted).name = KeyStr(C28_Name)
        /\ parseKeyWithTags(C28_Emitted).tag = C28_Tag ]_vars

\* the same for the names that are not empty and hold no "<!"
C28_PlainNames ==
  [][ /\ C28_KeyAdded
      /\ KeyStr(C28_Name) # <<>>
      /\ \A n \in 1..Len(KeyStr(C28_Name)) : KeyStr(C28_Name)[n] # "<"
      => /\ C28_Emitted = TaggedKey(C28_Name, C28_Tag).v
         /\ parseKeyWithTags(C28_Emitted).name = KeyStr(C28_Name)
         /\ parseKeyWithTags(C28_Emitted).tag = C28_Tag ]_vars

\* The tag decodeValue passes on for the i-th element of an array tagged tag
C29_DecodeTag(tag, i) ==
  IF StartsWith(tag, <<"[", "*">>) THEN SubSeq(tag, 3, Len(tag) - 1)
  ELSE IF StartsWith(tag, <<"[">>)
       THEN (IF i <= Len(splitArrayTag(tag)) THEN splitArrayTag(tag)[i] ELSE <<>>)
       ELSE <<>>

\* encode has tagged every element of a nested array, each with a custom tag or
\* with none
C29_ArrayDone ==
  /\ pc = "encoding" /\ stack # <<>>
  /\ ~Top.root /\ heap[Top.val].kind = "arr"
  /\ Top.i > Len(Top.keys)
  /\ \A i \in 1..Len(Top.types) :
       Top.types[i] = <<>> \/ \E n \in 1..Len(plugins) : plugins[n].tag = Top.types[i]

(* C29: the array-tag grammar is unambiguous for every tag custom() accepts: for
   any accepted one-character custom tag c, the characters ',', '[', ']' and '*'
   included, and any array mixing c-tagged and untagged elements, decode
   applies to each element exactly the tag encode assigned to it. *)
C29_ArrayTagUnambiguous ==
  C29_ArrayDone =>
    \A i \in 1..Len(Top.types) : C29_DecodeTag(ArrayTag(Top.types), i) = Top.types[i]

\* the same for the custom tags that are not a character of the array-tag syntax
C29_OrdinaryTags ==
  C29_ArrayDone /\ (\A n \in 1..Len(plugins) : plugins[n].tag \notin {<<",">>, <<"[">>, <<"]">>, <<"*">>})
    => \A i \in 1..Len(Top.types) : C29_DecodeTag(ArrayTag(Top.types), i) = Top.types[i]

\* No property name of the graph holds tag syntax
C30_NamesFreeOfTags(h, x) ==
  \A i \in Graph(h, x) : \A j \in 1..Len(h[i].keys) :
    \A n \in 1..Len(h[i].keys[j]) : h[i].keys[j][n] # "<"

\* The positions where encode emits a pointer: they hold an object that the
\* traversal has first met at another path
C30_PointerPlaces ==
  { p \in Paths :
      /\ IsRef(Nav(heap, input, p, 1))
      /\ \E e \in C23_Traversal : e[1] = Nav(heap, input, p, 1).v /\ e[2] # p }

C30_Resolved ==
  /\ threw = "none"
  /\ \A p \in C30_PointerPlaces :
       /\ IsRef(Nav(heap, decoded, p, 1))
       /\ heap[Nav(heap, decoded, p, 1).v].kind \in {"obj", "arr"}
       /\ \A e \in C23_Traversal :
            e[1] = Nav(heap, input, p, 1).v
              => Nav(heap, decoded, p, 1) = Nav(heap, decoded, e[2], 1)

(* C30: for every input graph of plain objects and arrays whose property names
   are free of tag syntax, every pointer that encode emits has a target path
   that decode resolves to a fully decoded object or array, never to undefined
   and never to the null placeholder of another pointer, so decode(encode(v))
   does not throw and leaves no placeholder null at any pointer location. *)
C30_PointersResolve ==
  /\ Ended /\ plugins = <<>>
  /\ PlainGraph(heap, input) /\ C30_NamesFreeOfTags(heap, input)
  => C30_Resolved

\* the same for the graphs that have no empty property name
C30_NamedPointersResolve ==
  /\ Ended /\ plugins = <<>>
  /\ PlainGraph(heap, input) /\ C30_NamesFreeOfTags(heap, input)
  /\ NamesNotEmpty(heap, input)
  => C30_Resolved

----------------------------------------------------------------------------
(* Claims about decode on received data, checked under Spec *)

\* decode was called on received data and has come to its end
Received == ~Encoding /\ pc \in {"decoded", "threw"}

\* A tag no built-in and no registered plugin has, and that is not an array tag
UnknownTag(parsed) ==
  /\ parsed.tagged /\ parsed.tag # <<>>
  /\ parsed.tag \notin builtInTags /\ ~hasPlugin(parsed.tag)
  /\ ~StartsWith(parsed.tag, <<"[">>)

(* C13: unknown tag passthrough: decoding a value under a tag that no built-in
   and no custom plugin has never throws and returns the value unchanged,
   whatever kind of value it is. *)
C13_UnknownTagPassthrough ==
  Received =>
    \A i \in 1..Len(WireRoot.keys) :
      UnknownTag(parseKeyWithTags(WireRoot.keys[i])) =>
        /\ pc = "decoded"
        /\ DeepEq(heap, GetProp(heap[decoded.v], Str(WireName(i))), WireRoot.vals[i], {})

\* The values received under a key tagged P, anywhere in the data
WirePointers ==
  UNION { { heap[o].vals[j] : j \in { n \in 1..Len(heap[o].keys) :
                                      parseKeyWithTags(heap[o].keys[n]).tag = <<"P">> } } :
          o \in Graph(heap, data) }

\* The path leads somewhere in the received tree: every segment names a
\* property, or an index, of the value the segments before it lead to
RECURSIVE WireExists(_, _, _, _)
WireExists(h, x, keys, i) ==
  IF i > Len(keys) THEN TRUE
  ELSE /\ IsRef(x)
       /\ keys[i].k \in {"str", "num"}
       /\ IF h[x.v].kind = "arr"
          THEN /\ IsIndexKey(KeyStr(keys[i]))
               /\ IndexVal(KeyStr(keys[i])) < Len(h[x.v].vals)
               /\ WireExists(h, h[x.v].vals[IndexVal(KeyStr(keys[i])) + 1], keys, i + 1)
          ELSE \E j \in 1..Len(h[x.v].keys) :
                 /\ parseKeyWithTags(h[x.v].keys[j]).name = KeyStr(keys[i])
                 /\ WireExists(h, h[x.v].vals[j], keys, i + 1)

Unresolvable ==
  \E v \in WirePointers : IsArray(heap, v) /\ ~WireExists(heap, data, heap[v.v].vals, 1)

(* C17: malformed pointer: whenever the target path of a P-tagged value does not
   exist in the tree, some segment missing, be it only the last one, decode
   throws; it never returns with the position left as the placeholder or set to
   undefined. *)
C17_MalformedPointerThrows ==
  Received /\ Unresolvable => pc = "threw"

(* C18: decode throws only when a pointer path cannot be resolved: for every
   other JSON-compatible tree, also one with a value whose shape does not fit
   its built-in tag (a non-string under R, a non-array under E or S, null under
   M, a non-array under P), decode returns a value. *)
C18_ThrowsOnlyForPointers ==
  Received /\ plugins = <<>> /\ ~Unresolvable => pc = "decoded"

\* The name, message, stack and constructor of an Error object
NameOf(e) == e.data[1]
MessageOf(e) == e.data[2]
StackOf(e) == e.data[3]
ClassOf(e) == e.data[4].v

\* The constructors of Errors that the global object has under their name
GlobalErrors == {ErrorName, TypeErrorName}

\* The Errors of the input below the root, by the paths that lead to them
C19_ErrorPaths ==
  { p \in Paths : /\ Len(p) >= 1
                  /\ IsRef(Nav(heap, input, p, 1))
                  /\ heap[Nav(heap, input, p, 1).v].kind = "error" }

(* C19: Error fidelity: an Error of subtype E with message m comes back from
   decode(encode(...)) as an Error whose message, stack and name are those of
   the original: an instance of E when E is a constructor the global object
   has, otherwise a generic Error carrying the name. *)
C19_ErrorFidelity ==
  /\ Ended /\ threw = "none" /\ plugins = <<>>
  /\ IsRef(input) /\ NamesNotEmpty(heap, input)
  => \A p \in C19_ErrorPaths :
       LET e == heap[Nav(heap, input, p, 1).v]
           d == Nav(heap, decoded, p, 1)
       IN /\ IsRef(d) /\ heap[d.v].kind = "error"
          /\ MessageOf(heap[d.v]) = MessageOf(e)
          /\ StackOf(heap[d.v]) = StackOf(e)
          /\ NameOf(heap[d.v]) = NameOf(e)
          /\ ClassOf(heap[d.v]) = IF NameOf(e).v \in GlobalErrors THEN ClassOf(e)
                                  ELSE ErrorName

\* an Error named CustomError came back, through JSON text, as an Error of
\* that name
C19_Witness ==
  /\ Ended /\ threw = "none" /\ plugins = <<>> /\ IsRef(input)
  /\ NamesNotEmpty(heap, input)
  /\ text # Undefined
  /\ \E p \in C19_ErrorPaths :
       /\ NameOf(heap[Nav(heap, input, p, 1).v]) = Str(CustomErrorName)
       /\ IsRef(Nav(heap, decoded, p, 1))
       /\ NameOf(heap[Nav(heap, decoded, p, 1).v]) = Str(CustomErrorName)
       /\ ClassOf(heap[Nav(heap, decoded, p, 1).v]) = ErrorName

\* The complete tuples [name, message, stack] received under a key tagged E
C20_Tuples ==
  { i \in 1..Len(WireRoot.keys) :
      /\ WireTag(i) = <<"E">>
      /\ IsArray(heap, WireRoot.vals[i])
      /\ Len(heap[WireRoot.vals[i].v].vals) = 3
      /\ heap[WireRoot.vals[i].v].vals[1].k = "str" }

(* C20: decoding an E-tagged tuple [name, message, stack] never throws, whatever
   string name is: when the global object has nothing under that name, or
   something that is not a constructor, or a constructor of something that is
   not an Error, the result is a generic Error with that name, message and
   stack. *)
C20_ErrorDecodeNeverThrows ==
  Received =>
    \A i \in C20_Tuples :
      LET t == heap[WireRoot.vals[i].v].vals
          d == GetProp(heap[decoded.v], Str(WireName(i)))
      IN /\ pc = "decoded"
         /\ IsRef(d) /\ heap[d.v].kind = "error"
         /\ t[1].v \notin GlobalErrors =>
              /\ ClassOf(heap[d.v]) = ErrorName
              /\ NameOf(heap[d.v]) = t[1]
              /\ MessageOf(heap[d.v]) = t[2]
              /\ StackOf(heap[d.v]) = t[3]

\* the tuple named a constructor of something that is not an Error
C20_Witness ==
  /\ Received /\ pc = "decoded"
  /\ \E i \in C20_Tuples :
       /\ heap[WireRoot.vals[i].v].vals[1] = Str(ObjectName)
       /\ NameOf(heap[GetProp(heap[decoded.v], Str(WireName(i))).v]) = Str(ObjectName)
       /\ ClassOf(heap[GetProp(heap[decoded.v], Str(WireName(i))).v]) = ErrorName

\* The RegExps of the input below the root, by the paths that lead to them
C21_RegExpPaths ==
  { p \in Paths : /\ Len(p) >= 1
                  /\ IsRef(Nav(heap, input, p, 1))
                  /\ heap[Nav(heap, input, p, 1).v].kind = "regexp" }

(* C21: RegExp pattern and flags are preserved: for every RegExp, whatever its
   source and whatever flags of the runtime it has, the string /source/flags
   that R encodes it to decodes to a RegExp with the same source and the same
   flags. *)
C21_RegExpPreserved ==
  /\ Ended /\ threw = "none" /\ plugins = <<>>
  /\ IsRef(input) /\ NamesNotEmpty(heap, input)
  => \A p \in C21_RegExpPaths :
       LET d == Nav(heap, decoded, p, 1)
       IN /\ IsRef(d) /\ heap[d.v].kind = "regexp"
          /\ heap[d.v].data = heap[Nav(heap, input, p, 1).v].data

\* Phase 2 is about to start: phase 1 has returned and no entry is resolved yet
C25_PhaseTwoStarts == pc = "resolving" /\ todo = pointers2Res

C25_Orders ==
  { f \in [1..Len(pointers2Res) -> 1..Len(pointers2Res)] :
      \A i, j \in 1..Len(pointers2Res) : f[i] = f[j] => i = j }

\* What phase 2 makes of the decoded tree when it takes the entries in this order
C25_Outcome(order) ==
  ResolveAll(heap, decoded, [i \in 1..Len(pointers2Res) |-> pointers2Res[order[i]]], 1)

C25_SameOutcome(r1, r2) ==
  /\ r1.threw = r2.threw
  /\ r1.threw = "none" => r1.h = r2.h

C25_SameKey(a, b) ==
  /\ a.k \in {"num", "str"} /\ b.k \in {"num", "str"}
  /\ KeyStr(a) = KeyStr(b)

\* The target path of entry p leads to, or through, the place where entry q
\* puts its reference
C25_LeadsThrough(p, q) ==
  /\ Iterable(heap, p[1])
  /\ Len(q[2]) <= Len(PathKeys(heap, p[1]))
  /\ \A n \in 1..Len(q[2]) : C25_SameKey(PathKeys(heap, p[1])[n], q[2][n])

C25_Independent ==
  \A i, j \in 1..Len(pointers2Res) :
    i # j => ~C25_LeadsThrough(pointers2Res[i], pointers2Res[j])

\* phase 2 leaves the backlog and the root of the result as phase 1 made them
C25_PhaseOneComplete ==
  [][DecodeResolve => pointers2Res' = pointers2Res /\ decoded' = decoded]_vars

(* C25 as stated: pointer resolution is order-independent: phase 2 starts only
   after phase 1 has decoded the whole tree, and for any backlog recorded in
   phase 1, resolving its entries in any permutation yields the same final
   decoded tree as resolving them in recorded order. *)
C25_AnyBacklogAnyOrder ==
  C25_PhaseTwoStarts =>
    \A order \in C25_Orders :
      C25_SameOutcome(C25_Outcome(order), C25_Outcome([i \in 1..Len(pointers2Res) |-> i]))

(* C25 amended: phase 2 starts only after phase 1 has decoded the whole tree,
   and for any backlog recorded in phase 1 in which no entry's target path
   leads to or through the place where another entry puts its reference,
   resolving the entries in any permutation yields the same outcome, the same
   final decoded tree or the same exception, as resolving them in recorded
   order. *)
C25_IndependentBacklogAnyOrder ==
  /\ C25_PhaseOneComplete
  /\ [](C25_PhaseTwoStarts /\ C25_Independent =>
          \A order \in C25_Orders :
            C25_SameOutcome(C25_Outcome(order),
                            C25_Outcome([i \in 1..Len(pointers2Res) |-> i])))

\* two pointers that encode emitted are about to be resolved
C25_Witness ==
  /\ C25_PhaseTwoStarts /\ C25_Independent
  /\ input # Undefined
  /\ Len(pointers2Res) >= 2
  /\ C25_Outcome([i \in 1..Len(pointers2Res) |-> i]).threw = "none"
  /\ C25_Outcome([i \in 1..Len(pointers2Res) |-> i]).h # heap

\* The commas of s outside brackets: as many "[" as "]" before them
C26_Count(s, c, n) == Cardinality({ m \in 1..n : s[m] = c })
C26_Commas(s) ==
  { n \in 1..Len(s) : s[n] = "," /\ C26_Count(s, "[", n) = C26_Count(s, "]", n) }
C26_Comma(s, k) ==
  CHOOSE n \in C26_Commas(s) : Cardinality({ m \in C26_Commas(s) : m <= n }) = k

\* The i-th part of s between such commas
C26_Part(s, i) ==
  SubSeq(s, IF i = 1 THEN 1 ELSE C26_Comma(s, i - 1) + 1,
            IF i > Cardinality(C26_Commas(s)) THEN Len(s) ELSE C26_Comma(s, i) - 1)

\* The tag of the i-th element of an array tagged tag
C26_TagAt(tag, i) ==
  IF StartsWith(tag, <<"[", "*">>) THEN SubSeq(tag, 3, Len(tag) - 1)
  ELSE IF StartsWith(tag, <<"[">>)
       THEN (IF i <= Cardinality(C26_Commas(SubSeq(tag, 2, Len(tag) - 1))) + 1
             THEN C26_Part(SubSeq(tag, 2, Len(tag) - 1), i) ELSE <<>>)
       ELSE <<>>

\* d is what the tag makes of the received value w: a Date of the timestamp
\* under D, an array of the elements under their tags, the value itself under
\* no tag
RECURSIVE C26_Decoded(_, _, _)
C26_Decoded(w, d, tag) ==
  IF tag = <<"D">>
  THEN IsRef(d) /\ heap[d.v].kind = "date" /\ heap[d.v].data = <<w>>
  ELSE IF IsArray(heap, w)
       THEN /\ IsArray(heap, d)
            /\ Len(heap[d.v].vals) = Len(heap[w.v].vals)
            /\ \A i \in 1..Len(heap[w.v].vals) :
                 C26_Decoded(heap[w.v].vals[i], heap[d.v].vals[i], C26_TagAt(tag, i))
       ELSE tag = <<>> /\ d = w

\* The properties of the received root that hold an array under an array tag
C26_Tagged ==
  { i \in 1..Len(WireRoot.keys) :
      /\ StartsWith(WireTag(i), <<"[">>) /\ EndsWith(WireTag(i), "]")
      /\ IsArray(heap, WireRoot.vals[i]) }

\* [t,t,...,t] with n parts
C26_PerElement(t, n) ==
  <<"[">> \o Join([i \in 1..n |-> t]) \o <<"]">>

\* The received root with every [*t] written per element
C26_PerElementKeys ==
  [i \in 1..Len(WireRoot.keys) |->
     IF i \in C26_Tagged /\ StartsWith(WireTag(i), <<"[", "*">>)
     THEN WireKey(WireName(i),
                  C26_PerElement(SubSeq(WireTag(i), 3, Len(WireTag(i)) - 1),
                                 Len(heap[WireRoot.vals[i].v].vals)))
     ELSE WireRoot.keys[i]]

C26_PerElementResult ==
  decodeValue(Result(Undefined, [heap EXCEPT ![data.v].keys = C26_PerElementKeys],
                     <<>>, "none"),
              data, <<>>, <<>>)

(* C26: decode derives element tags so that [*t] gives the tag t to every index
   and the per-element form gives index i the i-th part of a split on top-level
   commas only (nested brackets are not split: [,,[D]] gives '', '', '[D]');
   consequently [*t] and [t,t,...,t] applied to the same array decode to
   identical results. *)
C26_ArrayTagForms ==
  /\ [](\A i \in (IF data # Undefined /\ input = Undefined THEN C26_Tagged ELSE {}) :
          ~StartsWith(WireTag(i), <<"[", "*">>) =>
            /\ Len(splitArrayTag(WireTag(i)))
                 = Cardinality(C26_Commas(SubSeq(WireTag(i), 2, Len(WireTag(i)) - 1))) + 1
            /\ \A n \in 1..Len(splitArrayTag(WireTag(i))) :
                 splitArrayTag(WireTag(i))[n] = C26_TagAt(WireTag(i), n))
  /\ [](pc = "decoded" /\ input = Undefined =>
          \A i \in C26_Tagged :
            C26_Decoded(WireRoot.vals[i], GetProp(heap[decoded.v], Str(WireName(i))),
                        WireTag(i)))
  /\ [][ pc = "received" /\ DecodeCall /\ C26_Tagged # {} =>
           /\ decoded' = C26_PerElementResult.v
           /\ threw' = C26_PerElementResult.threw
           /\ pointers2Res' = C26_PerElementResult.ptrs
           /\ \A i \in 1..Len(heap') :
                i # data.v => heap'[i] = C26_PerElementResult.h[i] ]_vars

\* [*[,D]] has made Dates of the second element of both inner arrays
C26_Witness ==
  /\ pc = "decoded" /\ input = Undefined
  /\ \E i \in C26_Tagged :
       /\ WireTag(i) = <<"[", "*", "[", ",", "D", "]", "]">>
       /\ Len(heap[WireRoot.vals[i].v].vals) = 2
       /\ C26_Decoded(WireRoot.vals[i], GetProp(heap[decoded.v], Str(WireName(i))),
                      C26_PerElement(<<"[", ",", "D", "]">>, 2))

\* What decode makes of d in phase 1 when it starts from an empty backlog
C27_Fresh(d) == decodeValue(Result(Undefined, heap, <<>>, "none"), d, <<>>, <<>>)

\* The property values and elements of the tree the later call was given
C27_OwnValues ==
  UNION { { heap[o].vals[j] : j \in 1..Len(heap[o].vals) } : o \in Graph(heap, data) }

(* C27: the pointer backlog lives for one decode call: after any sequence of
   decode calls, calls that threw during pointer resolution included, a later
   decode call's result depends only on its own input and the plugin registry,
   and no pointer recorded by an earlier call is ever resolved in a later one:
   the later call decodes, records and sets out to resolve exactly what a call
   that starts from an empty backlog does, and every entry it resolves is
   recorded once, for a value of its own input. *)
C27_BacklogLivesOneCall ==
  /\ [][ DecodeAgain =>
           /\ pointers2Res' = C27_Fresh(data').ptrs
           /\ threw' = C27_Fresh(data').threw
           /\ heap' = C27_Fresh(data').h
           /\ todo' = (IF threw' = "none" THEN C27_Fresh(data').ptrs ELSE <<>>)
           /\ decoded' = (IF threw' = "none" THEN C27_Fresh(data').v ELSE Undefined) ]_vars
  /\ [](pc \in {"resolving again", "decoded again", "threw again"} =>
          \A i \in 1..Len(pointers2Res) :
            /\ pointers2Res[i][1] \in C27_OwnValues
            /\ \A j \in 1..Len(pointers2Res) :
                 pointers2Res[i] = pointers2Res[j] => i = j)

\* decode({ 'a<!P>': ['b', 'x'], 'b<!P>': [] }) threw in phase 2 and left two
\* entries; the later decode([]) has returned with an empty backlog
C27_Witness ==
  /\ pc = "decoded again"
  /\ heap[1].keys = <<WireKey(<<"a">>, <<"P">>), WireKey(<<"b">>, <<"P">>)>>
  /\ heap[2].vals = <<Str(<<"b">>), Str(<<"x">>)>>
  /\ data = Ref(3)
  /\ pointers2Res = <<>>
  /\ IsArray(heap, decoded)

----------------------------------------------------------------------------
(* Claims about the registry, checked under SpecRegistry *)

TheEightBuiltInTags ==
  { <<"D">>, <<"R">>, <<"E">>, <<"U">>, <<"M">>, <<"S">>, <<"P">>, <<"I">> }

IsFunction(config, m) == config[m].k = "fn"

\* The conditions under which the documentation says custom() throws.
C8_MustThrow(tag, config, registry) ==
  \/ tag.k # "str"
  \/ tag.k = "str" /\ Len(tag.v) # 1
  \/ tag.k = "str" /\ tag.v \in TheEightBuiltInTags
  \/ tag.k = "str" /\ \E i \in 1..Len(registry) : registry[i].tag = tag.v
  \/ config.k # "obj"
  \/ config.k = "obj" /\ \E m \in RequiredMembers : ~IsFunction(config, m)
  \/ config.k = "obj" /\ \E m \in OptionalMembers :
                            config[m] # Undefined /\ ~IsFunction(config, m)

(* C8: custom(tag, config) throws if and only if the tag is not a one-character
   string, is a built-in tag, is already registered as custom, a required member
   (check, encode, decode) is missing or not a function, or an optional member
   (onSend, onReceive) is present but not a function; otherwise the plugin is
   registered under that tag with that config. *)
C8_CustomThrowsIff ==
  lastCall.op = "custom" =>
    /\ (lastCall.threw # "none") <=> C8_MustThrow(lastCall.tag, lastCall.cfg, lastCall.before)
    /\ lastCall.threw = "none" =>
         \E i \in 1..Len(plugins) :
           plugins[i] = [tag |-> lastCall.tag.v, cfg |-> lastCall.cfg]

C8_Witness ==
  /\ lastCall.op = "custom"
  /\ lastCall.threw = "already registered"
  /\ Len(plugins) = 2

(* C9: the custom registry holds exactly the successful registrations since the
   last clear, in registration order, each with the config of its own call; it
   never holds a built-in tag, a tag that is not one character, or the same tag
   twice; a custom() call that throws leaves it unchanged. *)
C9_RegistryExact ==
  /\ \A i \in 1..Len(plugins) :
       /\ Len(plugins[i].tag) = 1
       /\ plugins[i].tag \notin TheEightBuiltInTags
       /\ \A j \in 1..Len(plugins) : plugins[j].tag = plugins[i].tag => j = i
  /\ lastCall.op = "custom" /\ lastCall.threw # "none" => plugins = lastCall.before
  /\ lastCall.op = "custom" /\ lastCall.threw = "none" =>
       plugins = Append(lastCall.before, [tag |-> lastCall.tag.v, cfg |-> lastCall.cfg])
  /\ lastCall.op = "clear" => plugins = <<>>

C9_Witness ==
  /\ lastCall.op = "custom"
  /\ lastCall.threw = "none"
  /\ Len(plugins) = 2
  /\ plugins[1].cfg # plugins[2].cfg

(* C10: clearPlugins removes every custom plugin and nothing else: afterwards no
   custom tag is registered, every tag that was registered can be registered
   again with its config, and the eight built-in tags are still the built-in
   table, each still refused by custom(). *)
C10_ClearRemovesOnlyCustom ==
  lastCall.op = "clear" =>
    /\ plugins = <<>>
    /\ \A t \in TheEightBuiltInTags : ~hasPlugin(t)
    /\ \A i \in 1..Len(lastCall.before) :
         /\ ~hasPlugin(lastCall.before[i].tag)
         /\ RegisterError(Str(lastCall.before[i].tag), lastCall.before[i].cfg) = "none"
    /\ builtInTags = TheEightBuiltInTags
    /\ \A t \in TheEightBuiltInTags :
         RegisterError(Str(t), ValidConfig("f")) = "conflicts with built-in"

C10_Witness ==
  /\ lastCall.op = "clear"
  /\ Len(lastCall.before) = 2

=============================================================================
